---- MODULE Spec2Model ----
(***************************************************************************)
(* Two-leg arbitrage executor (Executor.execute / executeArb and the five  *)
(* venue swap paths) driven by the cooperative evaluation loop of          *)
(* ArbitrageBot (start / runCycle / stop and the process signal handlers). *)
(* Every await of the source is a step boundary; the synchronous code      *)
(* between two awaits is one action.                                       *)
(***************************************************************************)
EXTENDS Integers, Sequences, FiniteSets, TLC

\* ------------------------------------------------------------------ bounds
\* Largest value of Date.now() (ms since the loop started) the model explores.
MaxClock == 30000
\* Number of evaluation cycles explored (cycleCount is unbounded in the code).
MaxCycles == 3
\* Number of token mints in tokens.json the ranking is explored with.
MaxMints == 2
\* Longest candidate list the spatial strategy reports in the ranking runs.
MaxFound == 2
\* Latest time and largest number of recordSuccess / recordFailure calls the
\* risk gate is explored with.
MaxRiskClock == 3
MaxRiskCalls == 3

\* Time that may pass in one advance of the clock, in ms.
TickSteps == {15000}

\* ------------------------------------------------------- program constants
\* Dedup cooldown window of Executor.execute, in ms.
DedupWindowMs == 30000

\* ------------------------------------------------------------------- pools
Pool(a, d, t) == [address |-> a, dex |-> d, poolType |-> t]
NoPool == Pool(0, "none", "none")

\* The venue pairs found on chain for the traded pair: between them they
\* cover the five swap paths, each as a buy venue and as a sell venue.
PoolConfigs ==
  { << Pool(1, "raydium", "amm-v4"),  Pool(2, "orca", "whirlpool") >>,
    << Pool(1, "raydium", "cpmm"),    Pool(2, "pumpfun", "bonding-curve") >>,
    << Pool(1, "pumpswap", "amm-v4"), Pool(2, "raydium", "clmm") >> }

\* ----------------------------------------------------------- opportunities
ArbOpportunity(t, b, s, profit, bps) ==
  [type |-> t, buyPool |-> b, sellPool |-> s, expectedProfit |-> profit, profitBps |-> bps]
NoOpp == ArbOpportunity("none", NoPool, NoPool, 0, 0)

\* What the three strategies can report over a pool list: a spatial
\* opportunity across the two pools, a temporal one on a single pool and a
\* triangular one the other way round.
Opportunities(ps) ==
  IF Len(ps) < 2 THEN {}
  ELSE { ArbOpportunity("spatial",    ps[1], ps[2], 1, 50),
         ArbOpportunity("temporal",   ps[1], ps[1], 2, 50),
         ArbOpportunity("triangular", ps[2], ps[1], 2, 70) }

\* Merged candidate lists of one cycle (length 0, 1 or 2).
CandidateLists(ps) ==
  {<<>>} \cup { <<o>> : o \in Opportunities(ps) }
         \cup { <<o, p>> : o \in Opportunities(ps), p \in Opportunities(ps) }

RECURSIVE MutPickBestLastWins(_, _)
MutPickBestLastWins(best, opps) ==
  IF opps = <<>> THEN best
  ELSE LET opp == Head(opps)
       IN  MutPickBestLastWins(IF best = NoOpp \/ opp.profitBps >= best.profitBps THEN opp ELSE best,
                               Tail(opps))
RECURSIVE PickBestFrom(_, _)
PickBestFrom(best, opps) ==
  IF opps = <<>> THEN best
  ELSE LET opp == Head(opps)
       IN  PickBestFrom(IF best = NoOpp \/ opp.profitBps > best.profitBps THEN opp ELSE best,
                        Tail(opps))
PickBest(opps) == PickBestFrom(NoOpp, opps)

\* ------------------------------------------ the ranking over all token mints
\* What the strategies report for one mint in one cycle: whether the pair has
\* two pools at all, and each strategy's list, given by its profitBps values.
BpsValues == {50, 70}
RECURSIVE BpsLists(_, _)
BpsLists(n, values) ==
  IF n = 0 THEN { << >> }
  ELSE BpsLists(n - 1, values)
         \cup { Append(l, b) : l \in { k \in BpsLists(n - 1, values) : Len(k) = n - 1 },
                               b \in values }
NoFound == [enough |-> FALSE, spatial |-> << >>, temporal |-> << >>, triangular |-> << >>]
Found ==
  { NoFound } \cup
  [enough : {TRUE}, spatial : BpsLists(MaxFound, BpsValues),
   temporal : BpsLists(1, {70}), triangular : BpsLists(1, {70})]
Snapshots == UNION { [1..n -> Found] : n \in 1..MaxMints }

\* The pools of mint m, and the candidates one strategy reports on them (the
\* position in the strategy's list is kept in expectedProfit, so that two
\* candidates of one list are told apart).
MintPools(m) == << Pool(10 * m + 1, "raydium", "amm-v4"), Pool(10 * m + 2, "orca", "whirlpool") >>
findOpportunities(t, m, bps) ==
  [i \in 1..Len(bps) |-> ArbOpportunity(t, MintPools(m)[1], MintPools(m)[2], i, bps[i])]

\* `opps` of runCycle for mint m: the three lists, spread into one.
MintOpps(m, f) ==
  findOpportunities("spatial", m, f.spatial)
    \o findOpportunities("temporal", m, f.temporal)
    \o findOpportunities("triangular", m, f.triangular)

\* runCycle's `for (const mint of MEME_MINTS)` loop from mint m on, with the
\* best opportunity found so far.
RECURSIVE RankMints(_, _, _)
RankMints(best, snap, m) ==
  IF m > Len(snap) THEN best
  ELSE RankMints(IF snap[m].enough THEN PickBestFrom(best, MintOpps(m, snap[m])) ELSE best,
                 snap, m + 1)

RankingOff == [pc |-> "off", snapshot |-> << NoFound >>, bestOpp |-> NoOpp]

\* ---------------------------------------------------------------- risk gate
\* The gate's configuration: largest input (tenths of SOL), freshness window,
\* fee margin, failure-streak threshold and cooldown (time in poll intervals).
MaxTradeSize == 5
FreshnessWindow == 2
FeeMargin == 1
FailureThreshold == 2
Cooldown == 2

\* What canExecute reads of an opportunity: its input and the timestamps of
\* the two pools it refers to.
RiskOpp(input, buyAt, sellAt) ==
  [inputAmount |-> input, buyPool |-> [lastUpdate |-> buyAt], sellPool |-> [lastUpdate |-> sellAt]]
NoRiskOpp == RiskOpp(0, 0, 0)
RiskOpps(now) ==
  { RiskOpp(i, b, s) : i \in {MaxTradeSize, MaxTradeSize + 1},
                       b \in {now, now - FreshnessWindow - 1},
                       s \in {now, now - FreshnessWindow - 1} }
Balances == {MaxTradeSize + FeeMargin - 1, MaxTradeSize + FeeMargin}

\* The four checks of canExecute, each as the condition under which it fails.
TooLarge(opp) == opp.inputAmount > MaxTradeSize
Stale(opp, now) ==
  \/ now - opp.buyPool.lastUpdate > FreshnessWindow
  \/ now - opp.sellPool.lastUpdate > FreshnessWindow
Underfunded(opp, rs) == rs.balance < opp.inputAmount + FeeMargin
Tripped(rs, now) ==
  rs.consecutiveFailures >= FailureThreshold /\ now - rs.cooldownStart < Cooldown

RiskResult(ok, why) == [allowed |-> ok, reason |-> why]
NoRiskResult == RiskResult(FALSE, "none")

MutCanExecuteFreshnessFirst(opp, rs, now) ==
  IF Stale(opp, now) THEN RiskResult(FALSE, "StaleData")
  ELSE IF TooLarge(opp) THEN RiskResult(FALSE, "PositionTooLarge")
  ELSE IF Underfunded(opp, rs) THEN RiskResult(FALSE, "InsufficientBalance")
  ELSE IF Tripped(rs, now) THEN RiskResult(FALSE, "CircuitOpen")
  ELSE RiskResult(TRUE, "none")
canExecute(opp, rs, now) ==
  IF TooLarge(opp) THEN RiskResult(FALSE, "PositionTooLarge")
  ELSE IF Stale(opp, now) THEN RiskResult(FALSE, "StaleData")
  ELSE IF Underfunded(opp, rs) THEN RiskResult(FALSE, "InsufficientBalance")
  ELSE IF Tripped(rs, now) THEN RiskResult(FALSE, "CircuitOpen")
  ELSE RiskResult(TRUE, "none")

MutRecordFailureNoStamp(rs, now) ==
  [rs EXCEPT !.consecutiveFailures = @ + 1]
recordFailure(rs, now) ==
  [rs EXCEPT !.consecutiveFailures = @ + 1, !.cooldownStart = now]
recordSuccess(rs) == [rs EXCEPT !.consecutiveFailures = 0]

\* RiskState after construction, with what the gate was last asked and
\* answered and the record calls it has received.
RiskOff ==
  [pc |-> "off", now |-> 0, consecutiveFailures |-> 0, cooldownStart |-> -1,
   balance |-> MaxTradeSize + FeeMargin, opp |-> NoRiskOpp, check |-> NoRiskResult,
   calls |-> << >>]

\* -------------------------------------------------------------------- dedup
DedupKey(opp) == << opp.buyPool.address, opp.sellPool.address, opp.type >>
NoExec == [key |-> << 0, 0, "none" >>, timestamp |-> -1]

KeysOf(ps) == { DedupKey(o) : o \in Opportunities(ps) }

MutDedupWindowInverted(last, key, now) ==
  last # NoExec /\ last.key = key /\ now - last.timestamp > DedupWindowMs
DedupSuppressed(last, key, now) ==
  last # NoExec /\ last.key = key /\ now - last.timestamp < DedupWindowMs

\* ------------------------------------------------------------- venue paths
\* Each swap path: the on-chain accounts it reads before building (a missing
\* one makes it return null), whether it simulates the built transaction
\* before signing, and what a simulation error makes it do.
swapViaRaydiumRaw == [checks |-> {"pool", "market"}, simulate |-> TRUE, onSimErr |-> "null"]
swapViaCpmm == [checks |-> {"pool"}, simulate |-> TRUE, onSimErr |-> "null"]
swapViaOrca == [checks |-> {"pool", "tickArrays"}, simulate |-> TRUE, onSimErr |-> "null"]
swapViaPumpFun == [checks |-> {}, simulate |-> TRUE, onSimErr |-> "null"]
MutSwapViaPumpSwapIgnoresSimErr == [checks |-> {"pool", "parse"}, simulate |-> TRUE, onSimErr |-> "send"]
swapViaPumpSwap == [checks |-> {"pool", "parse"}, simulate |-> TRUE, onSimErr |-> "null"]
NoVenue == [checks |-> {"venue"}, simulate |-> FALSE, onSimErr |-> "null"]

executeBuyLeg(pool) ==
  IF pool.dex = "orca" THEN "swapViaOrca"
  ELSE IF pool.dex = "pumpfun" THEN "swapViaPumpFun"
  ELSE IF pool.dex = "pumpswap" THEN "swapViaPumpSwap"
  ELSE IF pool.dex = "raydium" /\ pool.poolType = "cpmm" THEN "swapViaCpmm"
  ELSE IF pool.dex = "raydium" THEN "swapViaRaydiumRaw"
  ELSE "none"

executeSellLeg(pool) ==
  IF pool.dex = "orca" THEN "swapViaOrca"
  ELSE IF pool.dex = "pumpfun" THEN "swapViaPumpFun"
  ELSE IF pool.dex = "pumpswap" THEN "swapViaPumpSwap"
  ELSE IF pool.dex = "raydium" /\ pool.poolType = "cpmm" THEN "swapViaCpmm"
  ELSE IF pool.dex = "raydium" THEN "swapViaRaydiumRaw"
  ELSE "none"

Venue(fn) ==
  CASE fn = "swapViaOrca" -> swapViaOrca
    [] fn = "swapViaPumpFun" -> swapViaPumpFun
    [] fn = "swapViaPumpSwap" -> swapViaPumpSwap
    [] fn = "swapViaCpmm" -> swapViaCpmm
    [] fn = "swapViaRaydiumRaw" -> swapViaRaydiumRaw
    [] OTHER -> NoVenue

\* ---------------------------------------------------------------- the legs
LegIds == {"leg1", "leg2", "fallback"}

\* What one leg did: the pool and swap path it ran against, the amount it was
\* called with, how often its transaction was simulated and with what result,
\* whether it was signed, where the submitted transaction stands, and what
\* the leg returned.
LegRec(p, dir, fn, amount) ==
  [pool |-> p, dir |-> dir, fn |-> fn, amount |-> amount, attempts |-> 0, sims |-> 0,
   simRes |-> "none", signed |-> FALSE, tx |-> "none", res |-> "none"]
NoLeg == LegRec(NoPool, "none", "none", 0)
NoLegs == [l \in LegIds |-> NoLeg]

StartLeg(p, dir, fn, amount) == [LegRec(p, dir, fn, amount) EXCEPT !.attempts = 1]

\* The opportunity's input amount, in lamports, of the one trade size there is;
\* what a read of the wallet's token account can return, in base units; and a
\* read that threw.
solLamports == 1
TokenBalances == {0, 1, 2}
ReadThrew == -1

\* ------------------------------------------------- decimal.js arithmetic
\* A Decimal is a sign and a digit sequence (most significant first, no
\* leading or trailing zero) times a power of ten, or NaN, or an Infinity.
\* mul, div, add and minus round their result to DecimalPrecision significant
\* digits, half up; the constructor and floor keep every digit. mul, div and
\* add are given values that are not negative; minus alone yields one.
DecimalPrecision == 20

\* The one element of a set of one: its value, worked out once.
Only(S) == CHOOSE v \in S : TRUE
Zeros(n) == SubSeq([i \in 1..n |-> 0], 1, n)
Pad(a, n) == Zeros(n - Len(a)) \o a
\* Without the leading zeros, without the trailing zeros.
From(a, nz) == IF nz = {} THEN << >> ELSE SubSeq(a, CHOOSE i \in nz : \A j \in nz : i <= j, Len(a))
Upto(a, nz) == IF nz = {} THEN << >> ELSE SubSeq(a, 1, CHOOSE i \in nz : \A j \in nz : j <= i)
Strip(a) == From(a, { i \in 1..Len(a) : a[i] # 0 })
Chop(a) == Upto(a, { i \in 1..Len(a) : a[i] # 0 })

\* Whole numbers as digit sequences: comparison (-1, 0, 1), sum, difference
\* (of a and a smaller b), product, and quotient with remainder.
CmpAt(x, y, differ) ==
  IF differ = {} THEN 0
  ELSE IF \E i \in differ : x[i] < y[i] /\ \A j \in differ : i <= j THEN -1 ELSE 1
CmpDigits(x, y) ==
  IF Len(x) < Len(y) THEN -1
  ELSE IF Len(x) > Len(y) THEN 1
  ELSE CmpAt(x, y, { i \in 1..Len(x) : x[i] # y[i] })
BigCmp(a, b) == CmpDigits(Strip(a), Strip(b))
\* A digit receives a carry when a digit to its right overflows and every
\* digit in between passes the carry on.
Carry(x, y, n, i) ==
  IF \E j \in (i + 1)..n : /\ x[j] + y[j] >= 10
                           /\ \A t \in (i + 1)..(j - 1) : x[t] + y[t] = 9
  THEN 1 ELSE 0
AddDigits(x, y, n) ==
  Strip(SubSeq([i \in 1..n |-> (x[i] + y[i] + Carry(x, y, n, i)) % 10], 1, n))
Longer(a, b) == (IF Len(a) > Len(b) THEN Len(a) ELSE Len(b)) + 1
BigAdd(a, b) == AddDigits(Pad(a, Longer(a, b)), Pad(b, Longer(a, b)), Longer(a, b))
Borrow(x, y, n, i) ==
  IF \E j \in (i + 1)..n : /\ x[j] < y[j]
                           /\ \A t \in (i + 1)..(j - 1) : x[t] = y[t]
  THEN 1 ELSE 0
SubDigits(x, y, n) ==
  Strip(SubSeq([i \in 1..n |-> (x[i] - y[i] - Borrow(x, y, n, i) + 10) % 10], 1, n))
SubFrom(x, b) == SubDigits(x, Pad(b, Len(x)), Len(x))
BigSub(a, b) == SubFrom(Strip(a), Strip(b))
\* a times k, for k from 0 to 10: the units of each digit's product plus,
\* one place up, its tens.
MulDigit(a, k) ==
  BigAdd(SubSeq([i \in 1..Len(a) |-> (a[i] * k) \div 10], 1, Len(a)) \o << 0 >>,
         SubSeq([i \in 1..Len(a) |-> (a[i] * k) % 10], 1, Len(a)))
RECURSIVE BigMul(_, _)
BigMul(a, b) ==
  IF Len(a) = 0 \/ Len(b) = 0 THEN << >>
  ELSE IF Len(b) = 1 THEN MulDigit(a, b[1])
  ELSE Only({ BigAdd(high \o Zeros(Len(b) - Len(b) \div 2), low) :
                high \in { BigMul(a, SubSeq(b, 1, Len(b) \div 2)) },
                low \in { BigMul(a, SubSeq(b, Len(b) \div 2 + 1, Len(b))) } })
\* One step of long division: the next digit of the quotient is the largest
\* k with k*b <= cur, read off the multiples 0*b .. 10*b of the divisor.
DivDigit(multiples, cur, digit) == [q |-> << digit >>, r |-> BigSub(cur, multiples[digit + 1])]
DivStep(multiples, cur) ==
  DivDigit(multiples, cur, CHOOSE k \in 0..9 : /\ CmpDigits(multiples[k + 1], cur) <= 0
                                                /\ CmpDigits(multiples[k + 2], cur) > 0)
\* Long division of the digits i..j of a, given the remainder so far.
RECURSIVE DivRange(_, _, _, _, _)
DivRange(a, multiples, i, j, rem) ==
  IF i = j THEN DivStep(multiples, Strip(rem \o << a[i] >>))
  ELSE Only({ Only({ [q |-> high.q \o low.q, r |-> low.r] :
                       low \in { DivRange(a, multiples, (i + j) \div 2 + 1, j, high.r) } }) :
                high \in { DivRange(a, multiples, i, (i + j) \div 2, rem) } })
BigDivMod(a, b) ==
  IF Len(a) = 0 THEN [q |-> << >>, r |-> << >>]
  ELSE Only({ [q |-> Strip(qr.q), r |-> qr.r] :
                qr \in { Only({ DivRange(a, multiples, 1, Len(a), << >>) :
                                  multiples \in { SubSeq([k \in 1..11 |-> MulDigit(b, k - 1)], 1, 11) } }) } })

RECURSIVE DigitsOf(_)
DigitsOf(n) == IF n = 0 THEN << >> ELSE DigitsOf(n \div 10) \o << n % 10 >>
\* The digits of a numeral written as groups of nine digits.
RECURSIVE GroupDigits(_)
GroupDigits(groups) ==
  IF groups = << >> THEN << >>
  ELSE GroupDigits(SubSeq(groups, 1, Len(groups) - 1)) \o Pad(DigitsOf(groups[Len(groups)]), 9)

NaN == [k |-> "NaN", s |-> 0, d |-> << >>, e |-> 0]
Infinity == [k |-> "Infinity", s |-> 1, d |-> << >>, e |-> 0]
undefined == [k |-> "undefined", s |-> 0, d |-> << >>, e |-> 0]
Zero == [k |-> "num", s |-> 1, d |-> << >>, e |-> 0]
\* The Decimal of digits d times ten to the e.
Chopped(c, top) == [k |-> "num", s |-> 1, d |-> c, e |-> top - Len(c)]
Normal(s, e) == IF s = << >> THEN Zero ELSE Chopped(Chop(s), e + Len(s))
Dec(d, e) == Normal(Strip(d), e)
Decimal(n) == Dec(DigitsOf(n), 0)
DecimalOf(groups) == Dec(GroupDigits(groups), 0)
Negated(x) == IF x.k = "NaN" \/ (x.k = "num" /\ x.d = << >>) THEN x ELSE [x EXCEPT !.s = -1]
IsNum(x) == x.k = "num"
isZero(x) == IsNum(x) /\ x.d = << >>

\* An exact result brought to DecimalPrecision significant digits.
RoundDigits(s, e) ==
  IF Len(s) <= DecimalPrecision THEN Normal(s, e)
  ELSE Dec(IF s[DecimalPrecision + 1] >= 5
           THEN BigAdd(SubSeq(s, 1, DecimalPrecision), << 1 >>)
           ELSE SubSeq(s, 1, DecimalPrecision),
           e + Len(s) - DecimalPrecision)
RoundTo(d, e) == RoundDigits(Strip(d), e)

\* The digits of x and y brought to the smaller exponent e of the two.
Lower(x, y) == IF x.e < y.e THEN x.e ELSE y.e
At(x, e) == x.d \o Zeros(x.e - e)
cmp(x, y) == BigCmp(At(x, Lower(x, y)), At(y, Lower(x, y)))
gt(x, y) == IsNum(x) /\ cmp(x, y) > 0

mul(x, y) ==
  IF x = NaN \/ y = NaN THEN NaN
  ELSE IF x = Infinity \/ y = Infinity
       THEN (IF isZero(x) \/ isZero(y) THEN NaN ELSE Infinity)
  ELSE Only({ RoundTo(product, x.e + y.e) : product \in { BigMul(x.d, y.d) } })
add(x, y) ==
  IF x = NaN \/ y = NaN THEN NaN
  ELSE IF x = Infinity \/ y = Infinity THEN Infinity
  ELSE RoundTo(BigAdd(At(x, Lower(x, y)), At(y, Lower(x, y))), Lower(x, y))
\* The difference of the larger and the smaller of two numbers.
Apart(x, y, e) == RoundTo(BigSub(At(x, e), At(y, e)), e)
minus(x, y) ==
  IF x = NaN \/ y = NaN THEN NaN
  ELSE IF x = Infinity THEN (IF y = Infinity THEN NaN ELSE Infinity)
  ELSE IF y = Infinity THEN Negated(Infinity)
  ELSE IF cmp(x, y) >= 0 THEN Apart(x, y, Lower(x, y))
  ELSE Negated(Apart(y, x, Lower(x, y)))
\* The quotient of two numbers above zero, the dividend first scaled by
\* n zeros so that the quotient has more digits than the precision keeps.
Scaled(x, y, n) ==
  Only({ RoundTo(qr.q, x.e - n - y.e) : qr \in { BigDivMod(x.d \o Zeros(n), y.d) } })
Spare(x, y) == Len(y.d) + DecimalPrecision + 1 - Len(x.d)
div(x, y) ==
  IF x = NaN \/ y = NaN THEN NaN
  ELSE IF x = Infinity THEN (IF y = Infinity THEN NaN ELSE Infinity)
  ELSE IF y = Infinity THEN Zero
  ELSE IF isZero(y) THEN (IF isZero(x) THEN NaN ELSE Infinity)
  ELSE IF isZero(x) THEN Zero
  ELSE Scaled(x, y, IF Spare(x, y) > 0 THEN Spare(x, y) ELSE 0)
RECURSIVE pow(_, _)
pow(x, n) == IF n = 0 THEN Decimal(1) ELSE mul(pow(x, n - 1), x)
floor(x) ==
  IF ~IsNum(x) \/ x.e >= 0 THEN x
  ELSE IF -x.e >= Len(x.d) THEN Zero
  ELSE Dec(SubSeq(x.d, 1, Len(x.d) + x.e), 0)
\* The digits of a whole Decimal.
WholeDigits(x) == x.d \o Zeros(x.e)

\* ------------------------------------------------------ the quote engine
\* A PoolInfo as getQuote reads it; an optional Decimal that is absent is
\* undefined, an optional number that is absent is 0 (both are falsy).
QuotePool(type, rA, rB, fee, decA, decB, sqrtPrice, apiPrice) ==
  [poolType |-> type, tokenA |-> "A", tokenB |-> "B", reserveA |-> rA, reserveB |-> rB,
   fee |-> fee, decimalsA |-> decA, decimalsB |-> decB,
   sqrtPriceX64 |-> sqrtPrice, orcaApiPrice |-> apiPrice]
NoQuotePool == QuotePool("none", undefined, undefined, 0, 0, 0, undefined, undefined)

PriceQuote(inMint, outMint, amountIn, amountOut, impact, rate) ==
  [inputMint |-> inMint, outputMint |-> outMint, inputAmount |-> amountIn,
   outputAmount |-> amountOut, priceImpact |-> impact, effectivePrice |-> rate]
NoQuote == PriceQuote("none", "none", undefined, undefined, undefined, undefined)

feeMultiplier(feeBps) == div(Decimal(10000 - feeBps), Decimal(10000))
\* effectiveIn.mul(reserveOut).div(reserveIn.add(effectiveIn)).floor()
ConstantProduct(effectiveIn, reserveIn, reserveOut) ==
  floor(div(mul(effectiveIn, reserveOut), add(reserveIn, effectiveIn)))
getAmountOut(amountIn, reserveIn, reserveOut, feeBps) ==
  Only({ ConstantProduct(effectiveIn, reserveIn, reserveOut) :
           effectiveIn \in { mul(amountIn, feeMultiplier(feeBps)) } })

Q64 == DecimalOf(<< 18, 446744073, 709551616 >>)
OrDefault(decimals) == IF decimals = 0 THEN 9 ELSE decimals
UsesApiPrice(pool) == pool.orcaApiPrice # undefined /\ gt(pool.orcaApiPrice, Zero)
UsesSqrtPrice(pool) ==
  /\ ~UsesApiPrice(pool)
  /\ pool.poolType \in {"whirlpool", "clmm"}
  /\ pool.sqrtPriceX64 # undefined
rawPrice(pool) ==
  div(mul(pool.orcaApiPrice, pow(Decimal(10), OrDefault(pool.decimalsB))),
      pow(Decimal(10), OrDefault(pool.decimalsA)))
sqrtPrice(pool) == div(pool.sqrtPriceX64, Q64)
Squared(x) == mul(x, x)
\* The output of a pool that quotes from a price.
PricedOut(isForward, effectiveIn, price) ==
  IF isForward THEN floor(mul(effectiveIn, price)) ELSE floor(div(effectiveIn, price))
AtPrice(pool, isForward, inputAmount, price) ==
  Only({ PricedOut(isForward, effectiveIn, price) :
           effectiveIn \in { mul(inputAmount, feeMultiplier(pool.fee)) } })
outputAmount(pool, isForward, inputAmount) ==
  IF UsesApiPrice(pool) THEN AtPrice(pool, isForward, inputAmount, rawPrice(pool))
  ELSE IF UsesSqrtPrice(pool)
       THEN AtPrice(pool, isForward, inputAmount, Squared(sqrtPrice(pool)))
  ELSE getAmountOut(inputAmount,
                    IF isForward THEN pool.reserveA ELSE pool.reserveB,
                    IF isForward THEN pool.reserveB ELSE pool.reserveA, pool.fee)
actualRate(inputAmount, amountOut) ==
  IF isZero(inputAmount) THEN Zero ELSE div(amountOut, inputAmount)
idealRate(reserveIn, reserveOut) ==
  IF isZero(reserveIn) THEN Zero ELSE div(reserveOut, reserveIn)
priceImpact(actual, ideal) ==
  IF isZero(ideal) THEN Zero ELSE minus(Decimal(1), div(actual, ideal))
\* The quote once its output and its two rates are known.
Rated(inputMint, outputMint, inputAmount, amountOut, actual, ideal) ==
  PriceQuote(inputMint, outputMint, inputAmount, amountOut, priceImpact(actual, ideal), actual)
Quoted(inputMint, outputMint, inputAmount, amountOut, reserveIn, reserveOut) ==
  Only({ Rated(inputMint, outputMint, inputAmount, amountOut, actual, ideal) :
           actual \in { actualRate(inputAmount, amountOut) },
           ideal \in { idealRate(reserveIn, reserveOut) } })
QuoteOf(pool, isForward, inputMint, inputAmount) ==
  Only({ Quoted(inputMint, IF isForward THEN pool.tokenB ELSE pool.tokenA, inputAmount,
                amountOut,
                IF isForward THEN pool.reserveA ELSE pool.reserveB,
                IF isForward THEN pool.reserveB ELSE pool.reserveA) :
           amountOut \in { outputAmount(pool, isForward, inputAmount) } })
getQuote(pool, inputMint, inputAmount) ==
  QuoteOf(pool, pool.tokenA = inputMint, inputMint, inputAmount)

\* The pools and amounts the quote engine is run on: reserves in base units
\* (a drained vault reads 0), fees in basis points, the API's prices, and the
\* fixed-point square-root prices.
Reserves ==
  { << Decimal(1000), Decimal(50000) >>,
    << Decimal(1000000000), DecimalOf(<< 50, 0 >>) >>,
    << DecimalOf(<< 84, 941395109 >>), DecimalOf(<< 217, 664964868 >>) >>,
    << Zero, Decimal(5) >>,
    << Zero, Zero >> }
Fees == {0, 25}
ApiPrices == { Dec(<< 9, 5 >>, -2), Decimal(2), Zero }
SqrtPrices == { DecimalOf(<< 9, 223372036, 854775808 >>), Zero }
ReservePools ==
  { QuotePool(t, r[1], r[2], f, 0, 0, undefined, undefined) :
      t \in {"amm-v4", "whirlpool"}, r \in Reserves, f \in Fees }
ApiPools ==
  { QuotePool("whirlpool", Decimal(1), Decimal(1), f, 9, d, undefined, p) :
      f \in Fees, d \in {0, 6}, p \in ApiPrices }
SqrtPools ==
  { QuotePool("clmm", Decimal(1000), Decimal(250), f, 9, 9, q, undefined) :
      f \in Fees, q \in SqrtPrices }
QuotePools == ReservePools \cup ApiPools \cup SqrtPools
Amounts ==
  { Zero, Decimal(1), Decimal(7), Decimal(100000000), Decimal(500000000),
    DecimalOf(<< 12, 0, 10 >>) }

QuotingOff == [pc |-> "off", pool |-> NoQuotePool, first |-> NoQuote, second |-> NoQuote]

\* ------------------------------------------------ the built transactions
\* A leg swaps the native asset for the token (a buy) or the token for the
\* native asset (a sell): executeBuyLeg and executeSellLeg are the only callers.
SOL_MINT == "SOL"
TokenMint == "TOKEN"
Instr(op, account) == [op |-> op, account |-> account]
NoAccount == "none"

\* setComputeUnitLimit and setComputeUnitPrice, added first on every path.
ComputeBudget == << Instr("setComputeUnitLimit", NoAccount), Instr("setComputeUnitPrice", NoAccount) >>
\* createAssociatedTokenAccountInstruction for each of the accounts, in the
\* order given, that getAccountInfo did not find.
RECURSIVE EnsureAtas(_, _)
EnsureAtas(accounts, absent) ==
  IF accounts = << >> THEN << >>
  ELSE (IF Head(accounts) \in absent THEN << Instr("createAssociatedTokenAccount", Head(accounts)) >>
        ELSE << >>) \o EnsureAtas(Tail(accounts), absent)
\* SystemProgram.transfer into the wrapped-native account, then syncNative.
WrapSol(account) == << Instr("transfer", account), Instr("syncNative", account) >>
\* createCloseAccountInstruction on the wrapped-native account.
UnwrapSol(account) == << Instr("closeAccount", account) >>
Swap(fn) == << Instr("swap", fn) >>
\* The wallet's token account of a mint, named by the side of the swap it is on.
AtaOf(mint, inputMint) == IF mint = inputMint THEN "input" ELSE "output"

\* The instructions each swap path puts in its transaction. inputFirst says
\* whether the pool lists the input mint first (tokenMintA, baseMint).
RaydiumRawTx(inputMint, outputMint, absent) ==
  ComputeBudget \o EnsureAtas(<< "input", "output" >>, absent)
    \o (IF inputMint = SOL_MINT THEN WrapSol("input") ELSE << >>)
    \o Swap("swapViaRaydiumRaw")
    \o (IF outputMint = SOL_MINT THEN UnwrapSol("output") ELSE << >>)
CpmmTx(inputMint, outputMint, absent) ==
  ComputeBudget \o EnsureAtas(<< "input", "output" >>, absent)
    \o (IF inputMint = SOL_MINT THEN WrapSol("input") ELSE << >>)
    \o Swap("swapViaCpmm")
    \o (IF outputMint = SOL_MINT THEN UnwrapSol("output") ELSE << >>)
OrcaTx(inputMint, outputMint, absent, aToB) ==
  ComputeBudget
    \o EnsureAtas(IF aToB THEN << "input", "output" >> ELSE << "output", "input" >>, absent)
    \o (IF inputMint = SOL_MINT THEN WrapSol("input") ELSE << >>)
    \o Swap("swapViaOrca")
    \o (IF outputMint = SOL_MINT /\ inputMint # SOL_MINT THEN UnwrapSol("output") ELSE << >>)
PumpFunTx(inputMint, outputMint, absent) ==
  ComputeBudget
    \o EnsureAtas(<< AtaOf(IF inputMint = SOL_MINT THEN outputMint ELSE inputMint, inputMint) >>,
                  absent)
    \o Swap("swapViaPumpFun")
MutPumpSwapTxKeepsWsol(inputMint, outputMint, absent, baseIsInput) ==
  ComputeBudget
    \o EnsureAtas(IF baseIsInput THEN << "input", "output" >> ELSE << "output", "input" >>, absent)
    \o (IF inputMint = SOL_MINT THEN WrapSol("input") ELSE << >>)
    \o Swap("swapViaPumpSwap")
PumpSwapTx(inputMint, outputMint, absent, baseIsInput) ==
  ComputeBudget
    \o EnsureAtas(IF baseIsInput THEN << "input", "output" >> ELSE << "output", "input" >>, absent)
    \o (IF inputMint = SOL_MINT THEN WrapSol("input") ELSE << >>)
    \o Swap("swapViaPumpSwap")
    \o (IF inputMint # SOL_MINT THEN UnwrapSol("output") ELSE << >>)
BuildTx(fn, inputMint, outputMint, absent, inputFirst) ==
  CASE fn = "swapViaRaydiumRaw" -> RaydiumRawTx(inputMint, outputMint, absent)
    [] fn = "swapViaCpmm" -> CpmmTx(inputMint, outputMint, absent)
    [] fn = "swapViaOrca" -> OrcaTx(inputMint, outputMint, absent, inputFirst)
    [] fn = "swapViaPumpFun" -> PumpFunTx(inputMint, outputMint, absent)
    [] fn = "swapViaPumpSwap" -> PumpSwapTx(inputMint, outputMint, absent, inputFirst)
    [] OTHER -> << >>

\* The start indices of the three tick arrays a whirlpool swap names: the one
\* holding the current tick and the next two in the direction of the swap.
TicksPerArray == 88
arraySpacing(tickSpacing) == tickSpacing * TicksPerArray
currentStart(currentTick, tickSpacing) ==
  (currentTick \div arraySpacing(tickSpacing)) * arraySpacing(tickSpacing)
MutTickArraysForward(currentTick, tickSpacing, aToB) ==
  [i \in 1..3 |-> currentStart(currentTick, tickSpacing) + (i - 1) * arraySpacing(tickSpacing)]
tickArrays(currentTick, tickSpacing, aToB) ==
  [i \in 1..3 |-> currentStart(currentTick, tickSpacing)
                    + (IF aToB THEN 1 - i ELSE i - 1) * arraySpacing(tickSpacing)]

\* What the swap paths are run on: the path, the direction of the leg, the
\* token accounts of the wallet that do not exist yet, the order of the
\* pool's mints, and for a whirlpool its tick, its spacing and the tick
\* arrays that exist on chain.
SwapPaths ==
  {"swapViaRaydiumRaw", "swapViaCpmm", "swapViaOrca", "swapViaPumpFun", "swapViaPumpSwap"}
TickSpacings == {1, 2}
CurrentTicks == {-89, -1, 0, 87, 88}
MaxArrayIndex == 2
ArrayStarts(tickSpacing) ==
  { k * arraySpacing(tickSpacing) : k \in (-MaxArrayIndex - 1)..MaxArrayIndex }
NoWhirlpool == [currentTick |-> 0, tickSpacing |-> 1, onChain |-> {}]
Whirlpools ==
  UNION { [currentTick : CurrentTicks, tickSpacing : {ts}, onChain : SUBSET ArrayStarts(ts)] :
            ts \in TickSpacings }
SwapCall(fn, dir, absent, inputFirst, whirlpool) ==
  [fn |-> fn,
   inputMint |-> IF dir = "buy" THEN SOL_MINT ELSE TokenMint,
   outputMint |-> IF dir = "buy" THEN TokenMint ELSE SOL_MINT,
   absent |-> absent, inputFirst |-> inputFirst, whirlpool |-> whirlpool]
SwapCalls ==
  { SwapCall(fn, dir, absent, inputFirst, IF fn = "swapViaOrca" THEN w ELSE NoWhirlpool) :
      fn \in SwapPaths, dir \in {"buy", "sell"}, absent \in SUBSET {"input", "output"},
      inputFirst \in BOOLEAN, w \in Whirlpools }
NoSwapCall == SwapCall("none", "buy", {}, TRUE, NoWhirlpool)
BuildingOff ==
  [pc |-> "off", call |-> NoSwapCall, tx |-> << >>, simulated |-> FALSE, signed |-> FALSE,
   sent |-> FALSE, res |-> "none"]

\* ------------------------------------------------------------ PriceStream
\* The pools the stream is taken on, one per venue branch of
\* handleAccountUpdate: re-fetched (raydium), named but not re-fetched (orca),
\* not named (any other venue).
StreamPools == {"raydium", "orca", "pumpswap"}
\* A PoolInfo object: the pool it describes and the fetchPoolsFromAPIs call
\* (counted from 1) that made it.
PoolObj(address, gen) == [address |-> address, gen |-> gen]
Fetched(gen) == { PoolObj(a, gen) : a \in StreamPools }
\* fetchPoolsFromAPIs: new objects, with the reserves the venues report now.
fetchPoolsFromAPIs(heap, venue, gen, now) ==
  [o \in DOMAIN heap \cup Fetched(gen) |->
     IF o \in Fetched(gen) THEN [reserves |-> venue[o.address], lastUpdate |-> now]
     ELSE heap[o]]
\* What the awaited fetch of refetchReserves can come to.
FetchOutcomes == {"ok", "notOk", "noData", "threw"}
\* refetchReserves up to its first await: a request is sent for a raydium
\* pool only; for any other pool the function runs to its end at once.
Refetches(pool) == pool.address = "raydium"
refetchReservesSync(heap, pool, now) ==
  IF Refetches(pool) THEN heap ELSE [heap EXCEPT ![pool].lastUpdate = now]
\* refetchReserves after its fetch: the reserves of the response and a new
\* lastUpdate, or nothing.
refetchReservesDone(heap, pool, how, data, now) ==
  IF how = "ok" THEN [heap EXCEPT ![pool] = [reserves |-> data, lastUpdate |-> now]]
  ELSE heap
\* handleAccountUpdate: the parse call of the pool's venue (which calls
\* refetchReserves without awaiting it), then the stamp.
Parses(pool) == pool.address \in {"raydium", "orca"}
handleAccountUpdate(heap, pool, now) ==
  [(IF Parses(pool) THEN refetchReservesSync(heap, pool, now) ELSE heap)
     EXCEPT ![pool].lastUpdate = now]
NoPoolObj == PoolObj("none", 0)
\* A refetchReserves call: its place in the order of issue, the reserves its
\* response carries, and how its fetch came out.
Refetch(seq, data, how) == [seq |-> seq, data |-> data, how |-> how]
NoRefetch == Refetch(0, 0, "none")
StreamingOff ==
  [on |-> FALSE, now |-> 0, gen |-> 0, held |-> {}, subscribed |-> {}, heap |-> << >>,
   venue |-> << >>, inflight |-> {}, issued |-> 0, latest |-> << >>, applied |-> << >>,
   last |-> [op |-> "none", pool |-> NoPoolObj]]

\* ---------------------------------------------------- pump.fun bonding curve
\* BondingCurveData as the quotes read it; amounts are bigints, and bigint
\* division truncates.
BondingCurveData(tokens, sol) == [virtualTokenReserves |-> tokens, virtualSolReserves |-> sol]
CurveFeePct == 99
\* solIn -> tokens out.
getBuyQuote(curve, solIn) ==
  LET solAfterFee == (solIn * CurveFeePct) \div 100
      newSolReserves == curve.virtualSolReserves + solAfterFee
      k == curve.virtualTokenReserves * curve.virtualSolReserves
      newTokenReserves == k \div newSolReserves
  IN  curve.virtualTokenReserves - newTokenReserves
\* tokensIn -> SOL out.
getSellQuote(curve, tokensIn) ==
  LET newTokenReserves == curve.virtualTokenReserves + tokensIn
      k == curve.virtualTokenReserves * curve.virtualSolReserves
      newSolReserves == k \div newTokenReserves
      solOut == curve.virtualSolReserves - newSolReserves
  IN  (solOut * CurveFeePct) \div 100
\* The PoolInfo fetchPumpFunPools makes of a curve: SOL first, fee 100 bps,
\* no API price and no sqrt price, so that getQuote takes its reserve path.
CurveFeeBps == 100
CurvePool(curve) ==
  [tokenA |-> SOL_MINT, tokenB |-> TokenMint,
   reserveA |-> Decimal(curve.virtualSolReserves),
   reserveB |-> Decimal(curve.virtualTokenReserves), fee |-> CurveFeeBps]
\* PoolManager.getQuote's outputAmount on that pool.
CurvePoolQuote(curve, inputMint, amountIn) ==
  getAmountOut(Decimal(amountIn),
               IF inputMint = SOL_MINT THEN CurvePool(curve).reserveA ELSE CurvePool(curve).reserveB,
               IF inputMint = SOL_MINT THEN CurvePool(curve).reserveB ELSE CurvePool(curve).reserveA,
               CurvePool(curve).fee)
VirtualSol == {30, 1000, 30000}
VirtualTokens == {1073, 50000}
CurveAmounts == {0, 1, 7, 100, 101, 250}
NoCurveOut == -1
CurvingOff ==
  [pc |-> "off", curve |-> BondingCurveData(0, 0), inputMint |-> "none", amountIn |-> 0,
   helper |-> NoCurveOut, pool |-> undefined]

\* --------------------------------------------------------------- variables
VARIABLES
  clock,          \* Date.now()
  dryRun,         \* config.dryRun
  poolCfg,        \* the pools the venue APIs report for the traded pair
  alive,          \* the process has not exited
  running,        \* ArbitrageBot.running
  loopPc,         \* position of ArbitrageBot.start
  cycleCount,     \* ArbitrageBot.cycleCount
  activeCycles,   \* runCycle invocations that have not completed
  refreshTimer,   \* the setInterval refresh timer is set
  subscriptions,  \* PriceStream.subscriptions (by pool address)
  pools,          \* PoolManager.pools
  cyclePc,        \* position of the running runCycle
  bestOpp,        \* runCycle's bestOpp
  recorded,       \* what runCycle reported to the risk manager this cycle
  executionCount, \* Executor.executionCount
  totalProfit,    \* Executor.totalProfit
  lastExecution,  \* Executor.lastExecution
  state,          \* position of executeArb, in the terms of the two-leg machine
  legPc,          \* position inside the swap path of the pending leg
  legs,           \* what each leg of the current run did
  balReads,       \* token-balance reads of the current run
  outcome,        \* how this cycle's execute call was taken: suppressed | dry | live
  result,         \* what this cycle's execute call returned
  prevCall,       \* the most recent execute call: key, time, outcome
  lastStart,      \* the most recent execute call that was not suppressed
  started,        \* per dedup key, when its last non-suppressed call started
  riskCheck,      \* what canExecute gave runCycle this cycle: allowed | blocked | threw
  ranking,        \* runCycle's ranking loop taken on its own: lists in, choice out
  riskState,      \* the risk gate taken on its own: RiskState, the call and its answer
  quoting,        \* the quote engine taken on its own: pool, amounts in and out
  building,       \* a swap path taken on its own: the call, the transaction, its fate
  streaming,      \* the price stream taken on its own: PoolInfo objects, fetches in flight
  curving         \* the bonding-curve quotes taken on their own: curve, input, outputs

vars == << clock, dryRun, poolCfg, alive, running, loopPc, cycleCount, activeCycles,
           refreshTimer, subscriptions, pools, cyclePc, bestOpp, recorded,
           executionCount, totalProfit, lastExecution, state, legPc, legs, balReads,
           outcome, result, prevCall, lastStart, started, riskCheck,
           ranking, riskState, quoting, building, streaming, curving >>

\* The components that are exercised on their own, outside the loop.
sideVars == << ranking, riskState, quoting, building, streaming, curving >>

envVars == << clock, dryRun, poolCfg >>
loopVars == << alive, running, loopPc, cycleCount, activeCycles, refreshTimer,
               subscriptions, pools >>
statVars == << executionCount, totalProfit >>
callVars == << lastExecution, outcome, prevCall, lastStart, started >>
runVars == << state, legPc, legs, balReads >>

NoCall == [key |-> << 0, 0, "none" >>, at |-> -1, outcome |-> "none"]

Pending == {"Leg1Pending", "Leg2Pending", "FallbackPending"}
Terminal == {"Leg1Failed", "Done", "Failed"}
CurLeg ==
  CASE state = "Leg1Pending" -> "leg1"
    [] state = "Leg2Pending" -> "leg2"
    [] state = "FallbackPending" -> "fallback"
    [] OTHER -> "none"

BotInit ==
  /\ clock = 0
  /\ dryRun \in BOOLEAN
  /\ poolCfg \in PoolConfigs
  /\ alive = TRUE
  /\ running = FALSE
  /\ loopPc = "init"
  /\ cycleCount = 0
  /\ activeCycles = 0
  /\ refreshTimer = FALSE
  /\ subscriptions = {}
  /\ pools = << >>
  /\ cyclePc = "none"
  /\ bestOpp = NoOpp
  /\ recorded = "none"
  /\ executionCount = 0
  /\ totalProfit = 0
  /\ lastExecution = NoExec
  /\ state = "Idle"
  /\ legPc = "none"
  /\ legs = NoLegs
  /\ balReads = << >>
  /\ outcome = "none"
  /\ result = "none"
  /\ prevCall = NoCall
  /\ lastStart = NoCall
  /\ started = [k \in KeysOf(poolCfg) |-> -1]
  /\ riskCheck = "none"

\* The bot, with the components that are also exercised on their own at rest.
Init ==
  /\ BotInit
  /\ ranking = RankingOff
  /\ riskState = RiskOff
  /\ quoting = QuotingOff
  /\ building = BuildingOff
  /\ streaming = StreamingOff
  /\ curving = CurvingOff

\* ------------------------------------------------------ ArbitrageBot.start
\* PoolManager.init: the pool list is replaced by what the APIs return; with
\* no pools start() returns and, nothing being scheduled, the process ends.
StartInit ==
  /\ alive /\ loopPc = "init"
  /\ \E fetched \in {poolCfg, << >>} :
       /\ pools' = fetched
       /\ IF Len(fetched) = 0
          THEN loopPc' = "returned" /\ alive' = FALSE
          ELSE loopPc' = "subscribe" /\ alive' = alive
  /\ UNCHANGED << running, cycleCount, activeCycles, refreshTimer, subscriptions >>
  /\ UNCHANGED << envVars, cyclePc, bestOpp, recorded, statVars, callVars, runVars, result >>
  /\ UNCHANGED << riskCheck, sideVars >>

\* PriceStream.subscribe, then setInterval and running = true.
StartSubscribe ==
  /\ alive /\ loopPc = "subscribe"
  /\ subscriptions' = { pools[i].address : i \in 1..Len(pools) }
  /\ refreshTimer' = TRUE
  /\ running' = TRUE
  /\ loopPc' = "top"
  /\ UNCHANGED << alive, cycleCount, activeCycles, pools >>
  /\ UNCHANGED << envVars, cyclePc, bestOpp, recorded, statVars, callVars, runVars, result >>
  /\ UNCHANGED << riskCheck, sideVars >>

\* `await this.runCycle()`: the loop goes on only when the cycle has completed.
MutAwaitCycleNotAwaited(done) == "sleep"
AwaitCycle(done) == IF done THEN "sleep" ELSE "cycle"

\* The try/catch around the awaited cycle: a cycle that threw is swallowed,
\* and either way the loop goes on to its sleep.
MutLoopCatchMissing(how) == IF how = "threw" THEN "crashed" ELSE "sleep"
LoopCatch(how) == IF how = "threw" THEN "sleep" ELSE "sleep"

\* The loop's `while (this.running)` test with what follows it: the
\* synchronous head of runCycle (count, scan, rank, call of canExecute), or
\* the teardown after the loop.
RunCycle ==
  /\ alive /\ loopPc = "top"
  /\ IF running
     THEN /\ cycleCount < MaxCycles
          /\ cycleCount' = cycleCount + 1
          /\ \E cands \in CandidateLists(pools), threw \in BOOLEAN :
               LET best == IF threw THEN NoOpp ELSE PickBest(cands)
               IN  /\ bestOpp' = best
                   /\ IF best = NoOpp
                      THEN /\ cyclePc' = IF threw THEN "threw" ELSE "returned"
                           /\ activeCycles' = activeCycles
                           /\ loopPc' = IF threw THEN LoopCatch("threw") ELSE AwaitCycle(TRUE)
                      ELSE /\ cyclePc' = "risk"
                           /\ activeCycles' = activeCycles + 1
                           /\ loopPc' = AwaitCycle(FALSE)
          /\ recorded' = "none" /\ outcome' = "none" /\ result' = "none"
          /\ riskCheck' = "none"
          /\ state' = "Idle" /\ legPc' = "none" /\ legs' = NoLegs /\ balReads' = << >>
          /\ UNCHANGED << refreshTimer, subscriptions >>
     ELSE /\ refreshTimer' = FALSE
          /\ subscriptions' = {}
          /\ loopPc' = "stopped"
          /\ UNCHANGED << cycleCount, activeCycles, cyclePc, bestOpp, recorded, outcome,
                          result, runVars, riskCheck >>
  /\ UNCHANGED << alive, running, pools, envVars, statVars, lastExecution, prevCall,
                  lastStart, started, sideVars >>

\* runCycle completes: it returned, or it threw into the loop's catch.
CycleEnds(how) ==
  /\ cyclePc' = how
  /\ activeCycles' = activeCycles - 1
  /\ loopPc' = IF loopPc = "cycle" THEN LoopCatch(how) ELSE loopPc

\* `await sleep(config.pollIntervalMs)`.
Sleep ==
  /\ alive /\ loopPc = "sleep"
  /\ loopPc' = "top"
  /\ UNCHANGED << alive, running, cycleCount, activeCycles, refreshTimer, subscriptions, pools >>
  /\ UNCHANGED << envVars, cyclePc, bestOpp, recorded, statVars, callVars, runVars, result >>
  /\ UNCHANGED << riskCheck, sideVars >>

\* Time passes while the loop sleeps (Date.now() is read once per execute call).
Tick ==
  /\ alive /\ loopPc = "sleep"
  /\ \E d \in TickSteps : clock + d <= MaxClock /\ clock' = clock + d
  /\ UNCHANGED << dryRun, poolCfg, loopVars, cyclePc, bestOpp, recorded, statVars,
                  callVars, runVars, result, riskCheck, sideVars >>

\* The setInterval callback: PoolManager.init replaces the pool list by what
\* the APIs return now (nothing, when they fail).
RefreshTick ==
  /\ alive /\ refreshTimer
  /\ \E fetched \in {poolCfg, << >>} : pools' = fetched /\ pools' # pools
  /\ UNCHANGED << alive, running, loopPc, cycleCount, activeCycles, refreshTimer, subscriptions >>
  /\ UNCHANGED << envVars, cyclePc, bestOpp, recorded, statVars, callVars, runVars, result >>
  /\ UNCHANGED << riskCheck, sideVars >>

\* SIGINT / SIGTERM: bot.stop() and then process.exit(0), in one handler.
stop == running' = FALSE
Signal ==
  /\ alive
  /\ stop
  /\ alive' = FALSE
  /\ UNCHANGED << loopPc, cycleCount, activeCycles, refreshTimer, subscriptions, pools >>
  /\ UNCHANGED << envVars, cyclePc, bestOpp, recorded, statVars, callVars, runVars, result >>
  /\ UNCHANGED << riskCheck, sideVars >>

\* ------------------------------------------------------- Executor.execute
\* execute returns to runCycle, which reports the result to the risk manager
\* and completes.
ExecuteReturns(res) ==
  /\ result' = res
  /\ recorded' = CASE res = "true" -> "success" [] res = "false" -> "failure" [] OTHER -> "none"
  /\ CycleEnds(IF res = "throw" THEN "threw" ELSE "returned")

\* The try/catch of execute around executeArb: what execute gives runCycle
\* when executeArb returned true or false or threw.
MutTryCatchRethrows(how) == how
TryCatch(how) == IF how = "throw" THEN "false" ELSE how

\* The dry-run branch: counters only.
MutDryRunForgetsProfit(count, profit, opp) == [executions |-> count + 1, profit |-> profit]
DryRunStats(count, profit, opp) ==
  [executions |-> count + 1, profit |-> profit + opp.expectedProfit]

\* The end of executeArb after a confirmed Leg 2: counters, then true.
MutArbCompleteCountsLegs(count, profit, opp) ==
  [executions |-> count + 2, profit |-> profit + opp.expectedProfit]
ArbComplete(count, profit, opp) ==
  [executions |-> count + 1, profit |-> profit + opp.expectedProfit]

\* The stamp left by a call that is not suppressed.
MutStampForgetsKey(last, key, now) == [key |-> last.key, timestamp |-> now]
MutStampKeepsOldTime(last, key, now) ==
  [key |-> key, timestamp |-> IF last = NoExec THEN now ELSE last.timestamp]
Stamp(last, key, now) == [key |-> key, timestamp |-> now]

\* What the awaited canExecute can give runCycle, and runCycle's test of it.
RiskOutcomes == {"allowed", "blocked", "threw"}
MutAllowedIgnoresBlock(rc) == rc # "threw"
Allowed(rc) == rc = "allowed"

\* canExecute blocks or throws: runCycle completes without calling execute.
RiskBlocks ==
  /\ alive /\ cyclePc = "risk"
  /\ \E rc \in RiskOutcomes :
       /\ ~Allowed(rc)
       /\ riskCheck' = rc
       /\ CycleEnds(IF rc = "threw" THEN "threw" ELSE "returned")
  /\ UNCHANGED << alive, running, cycleCount, refreshTimer, subscriptions, pools >>
  /\ UNCHANGED << envVars, bestOpp, recorded, statVars, callVars, runVars, result, sideVars >>

\* canExecute allows: execute(bestOpp) runs up to its first await.
Execute ==
  /\ alive /\ cyclePc = "risk"
  /\ \E rc \in RiskOutcomes : Allowed(rc) /\ riskCheck' = rc
  /\ LET key == DedupKey(bestOpp)
         now == clock
     IN  IF DedupSuppressed(lastExecution, key, now)
         THEN /\ outcome' = "suppressed"
              /\ prevCall' = [key |-> key, at |-> now, outcome |-> "suppressed"]
              /\ ExecuteReturns("false")
              /\ UNCHANGED << lastExecution, lastStart, started, statVars, runVars >>
         ELSE /\ lastExecution' = Stamp(lastExecution, key, now)
              /\ lastStart' = [key |-> key, at |-> now,
                               outcome |-> IF dryRun THEN "dry" ELSE "live"]
              /\ prevCall' = lastStart'
              /\ started' = [started EXCEPT ![key] = now]
              /\ IF dryRun
                 THEN /\ outcome' = "dry"
                      /\ executionCount' = DryRunStats(executionCount, totalProfit, bestOpp).executions
                      /\ totalProfit' = DryRunStats(executionCount, totalProfit, bestOpp).profit
                      /\ ExecuteReturns("true")
                      /\ UNCHANGED runVars
                 ELSE /\ outcome' = "live"
                      /\ state' = "Leg1Pending"
                      /\ legPc' = "pre"
                      /\ legs' = [legs EXCEPT !["leg1"] =
                                    StartLeg(bestOpp.buyPool, "buy", executeBuyLeg(bestOpp.buyPool),
                                             solLamports)]
                      /\ cyclePc' = "exec"
                      /\ UNCHANGED << statVars, balReads, result, recorded, activeCycles, loopPc >>
  /\ UNCHANGED << alive, running, cycleCount, refreshTimer, subscriptions, pools >>
  /\ UNCHANGED << envVars, bestOpp, sideVars >>

\* ---------------------------------------------------- Executor.executeArb
\* The alternate pool of the fallback re-sell.
otherPool(opp) == IF opp.sellPool # opp.buyPool THEN opp.buyPool ELSE NoPool

\* executeArb ends without success: it returns false (from `if (!sig1)` or
\* from one of its later `return false` statements) or it throws, and
\* execute passes that on through its try/catch.
ReturnFalse(st, legs2, br, how) ==
  /\ state' = st /\ legPc' = "none" /\ legs' = legs2 /\ balReads' = br
  /\ ExecuteReturns(TryCatch(how))
  /\ UNCHANGED statVars

\* How executeArb ends on a leg result or a balance read that is not usable.
Ends(res) == IF res = "throw" THEN "throw" ELSE "false"

\* executeArb goes on to its next await.
GoOn(st, lpc, legs2, br) ==
  /\ state' = st /\ legPc' = lpc /\ legs' = legs2 /\ balReads' = br
  /\ UNCHANGED << statVars, result, recorded, cyclePc, activeCycles, loopPc >>

\* The pending leg returns res (a signature, null, or a thrown error) and
\* executeArb runs on from there to its next await or to its return.
LegReturns(l, res, legs1) ==
  LET legs2 == [legs1 EXCEPT ![l].res = res]
  IN  CASE l = "leg1" ->
             IF res = "sig" THEN GoOn("Leg1Done", "settle", legs2, balReads)
             ELSE ReturnFalse("Leg1Failed", legs2, balReads, Ends(res))
        [] l = "leg2" ->
             IF res = "sig"
             THEN /\ state' = "Done" /\ legPc' = "none" /\ legs' = legs2
                  /\ balReads' = balReads
                  /\ executionCount' = ArbComplete(executionCount, totalProfit, bestOpp).executions
                  /\ totalProfit' = ArbComplete(executionCount, totalProfit, bestOpp).profit
                  /\ ExecuteReturns(TryCatch("true"))
             ELSE IF res = "null" THEN GoOn("Leg2Failed", "none", legs2, balReads)
             ELSE ReturnFalse("Failed", legs2, balReads, Ends(res))
        [] l = "fallback" -> ReturnFalse("Failed", legs2, balReads, Ends(res))

LegFrame ==
  /\ UNCHANGED << alive, running, cycleCount, refreshTimer, subscriptions, pools >>
  /\ UNCHANGED << envVars, bestOpp, callVars, riskCheck, sideVars >>

\* getAssociatedTokenAddress and the one-second settle delay after a
\* confirmed Leg 1.
Settle ==
  /\ alive /\ state = "Leg1Done" /\ legPc = "settle"
  /\ GoOn("Leg1Done", "read", legs, balReads)
  /\ LegFrame

\* getTokenAccountBalance: the amount it returns, or a thrown error.
BalanceReads == TokenBalances \cup {ReadThrew}
Usable(tokenAmount) == tokenAmount # ReadThrew /\ tokenAmount # 0
OnRead(tokenAmount) == IF tokenAmount = ReadThrew THEN "throw" ELSE "false"

\* The sell of Leg 2: against opp.sellPool, with the amount just read.
MutSellLegOnBuyPool(opp, tokenAmount) ==
  StartLeg(opp.buyPool, "sell", executeSellLeg(opp.buyPool), tokenAmount)
SellLeg(opp, tokenAmount) ==
  StartLeg(opp.sellPool, "sell", executeSellLeg(opp.sellPool), tokenAmount)
\* The fallback re-sell: against the alternate pool, with the amount re-read.
FallbackLeg(opp, tokenAmount) ==
  StartLeg(otherPool(opp), "sell", executeSellLeg(otherPool(opp)), tokenAmount)

\* The token-balance read after the settle delay, then the call of the sell leg.
ReadBalance1 ==
  /\ alive /\ state = "Leg1Done" /\ legPc = "read"
  /\ \E tokenAmount \in BalanceReads :
       IF Usable(tokenAmount)
       THEN GoOn("Leg2Pending", "pre",
                 [legs EXCEPT !["leg2"] = SellLeg(bestOpp, tokenAmount)],
                 Append(balReads, tokenAmount))
       ELSE ReturnFalse("Failed", legs, Append(balReads, tokenAmount), OnRead(tokenAmount))
  /\ LegFrame

\* Balance re-read after a failed Leg 2, then the fallback re-sell if any.
ReadBalance2 ==
  /\ alive /\ state = "Leg2Failed"
  /\ \E tokenAmount \in BalanceReads :
       IF Usable(tokenAmount) /\ otherPool(bestOpp) # NoPool
       THEN GoOn("FallbackPending", "pre",
                 [legs EXCEPT !["fallback"] = FallbackLeg(bestOpp, tokenAmount)],
                 Append(balReads, tokenAmount))
       ELSE ReturnFalse("Failed", legs, Append(balReads, tokenAmount), OnRead(tokenAmount))
  /\ LegFrame

\* ------------------------------------------------------- the swap paths
\* The account reads a swap path makes before it builds its transaction.
PreOutcomes(fn) ==
  IF fn = "none" THEN {"null"}
  ELSE IF Venue(fn).checks = {} THEN {"ok"}
  ELSE {"ok", "null", "throw"}

LegPre ==
  /\ alive /\ state \in Pending /\ legPc = "pre"
  /\ LET l == CurLeg
     IN  \E r \in PreOutcomes(legs[l].fn) :
           IF r = "ok" THEN GoOn(state, "build", legs, balReads)
           ELSE LegReturns(l, r, legs)
  /\ LegFrame

\* Token-account reads, instruction assembly and the blockhash fetch; the
\* built transaction goes to simulation.
LegBuild ==
  /\ alive /\ state \in Pending /\ legPc = "build"
  /\ LET l == CurLeg
     IN  \E r \in {"ok", "throw"} :
           IF r = "ok"
           THEN GoOn(state, IF Venue(legs[l].fn).simulate THEN "sim" ELSE "send", legs, balReads)
           ELSE LegReturns(l, "throw", legs)
  /\ LegFrame

\* connection.simulateTransaction and the test of sim.value.err.
LegSim ==
  /\ alive /\ state \in Pending /\ legPc = "sim"
  /\ LET l == CurLeg
     IN  \E r \in {"ok", "err", "throw"} :
           LET legs1 == [legs EXCEPT ![l].sims = @ + 1,
                                     ![l].simRes = IF r = "throw" THEN @ ELSE r]
           IN  IF r = "throw" THEN LegReturns(l, "throw", legs1)
               ELSE IF r = "err" /\ Venue(legs[l].fn).onSimErr = "null"
                    THEN LegReturns(l, "null", legs1)
               ELSE GoOn(state, "send", legs1, balReads)
  /\ LegFrame

\* tx.sign(wallet) and connection.sendRawTransaction.
LegSend ==
  /\ alive /\ state \in Pending /\ legPc = "send"
  /\ LET l == CurLeg
         legs1 == [legs EXCEPT ![l].signed = TRUE]
     IN  \E r \in {"ok", "throw"} :
           IF r = "ok"
           THEN GoOn(state, "confirm", [legs1 EXCEPT ![l].tx = "pending"], balReads)
           ELSE LegReturns(l, "throw", legs1)
  /\ LegFrame

\* connection.confirmTransaction on the submitted signature: confirmed, an
\* on-chain error, or a thrown error that leaves the transaction's fate open.
sendAndConfirm(conf) ==
  CASE conf = "ok" -> [tx |-> "landed", ret |-> "sig"]
    [] conf = "err" -> [tx |-> "reverted", ret |-> "null"]
    [] OTHER -> [tx |-> "pending", ret |-> "throw"]

LegConfirm ==
  /\ alive /\ state \in Pending /\ legPc = "confirm"
  /\ LET l == CurLeg
     IN  \E conf \in {"ok", "err", "throw"} :
           LegReturns(l, sendAndConfirm(conf).ret,
                      [legs EXCEPT ![l].tx = sendAndConfirm(conf).tx])
  /\ LegFrame

\* The chain settles a submitted transaction nobody is waiting for any more.
ChainResolve ==
  /\ \E l \in LegIds, fate \in {"landed", "dropped"} :
       /\ legs[l].tx = "pending"
       /\ ~(l = CurLeg /\ legPc = "confirm")
       /\ legs' = [legs EXCEPT ![l].tx = fate]
  /\ UNCHANGED << envVars, loopVars, cyclePc, bestOpp, recorded, statVars, callVars,
                  state, legPc, balReads, result, riskCheck, sideVars >>

Next ==
  \/ StartInit
  \/ StartSubscribe
  \/ RunCycle
  \/ Sleep
  \/ Tick
  \/ RefreshTick
  \/ Signal
  \/ RiskBlocks
  \/ Execute
  \/ Settle
  \/ ReadBalance1
  \/ ReadBalance2
  \/ LegPre
  \/ LegBuild
  \/ LegSim
  \/ LegSend
  \/ LegConfirm
  \/ ChainResolve

Spec == Init /\ [][Next]_vars

\* The bot constructed and not started: where the components run on their own.
Parked == BotInit /\ ~dryRun /\ poolCfg[2].dex = "orca"
BotFrame ==
  UNCHANGED << envVars, loopVars, cyclePc, bestOpp, recorded, statVars, callVars, runVars,
               result, riskCheck >>

\* ============================================== the ranking, on its own
RankInit ==
  /\ Parked
  /\ \E snap \in Snapshots : ranking = [pc |-> "ready", snapshot |-> snap, bestOpp |-> NoOpp]
  /\ riskState = RiskOff
  /\ quoting = QuotingOff
  /\ building = BuildingOff
  /\ streaming = StreamingOff
  /\ curving = CurvingOff

\* One pass of runCycle's ranking over the snapshot.
Rank ==
  /\ ranking.pc = "ready"
  /\ ranking' = [ranking EXCEPT !.pc = "done",
                                !.bestOpp = RankMints(NoOpp, ranking.snapshot, 1)]
  /\ BotFrame
  /\ UNCHANGED << riskState, quoting, building, streaming, curving >>

RankNext == Rank
RankSpec == RankInit /\ [][RankNext]_vars

\* ============================================ the risk gate, on its own
RiskInit ==
  /\ Parked
  /\ riskState = [RiskOff EXCEPT !.pc = "on"]
  /\ ranking = RankingOff
  /\ quoting = QuotingOff
  /\ building = BuildingOff
  /\ streaming = StreamingOff
  /\ curving = CurvingOff

RiskFrame == BotFrame /\ UNCHANGED << ranking, quoting, building, streaming, curving >>

\* Time passes.
RiskAdvance ==
  /\ riskState.pc = "on" /\ riskState.now < MaxRiskClock
  /\ riskState' = [riskState EXCEPT !.now = @ + 1]
  /\ RiskFrame

\* The external poller injects a new balance snapshot.
SetBalance ==
  /\ riskState.pc = "on"
  /\ \E b \in Balances \ {riskState.balance} : riskState' = [riskState EXCEPT !.balance = b]
  /\ RiskFrame

CanExecute ==
  /\ riskState.pc = "on"
  /\ \E opp \in RiskOpps(riskState.now) :
       riskState' = [riskState EXCEPT !.opp = opp,
                                      !.check = canExecute(opp, riskState, riskState.now)]
  /\ RiskFrame

RecordSuccess ==
  /\ riskState.pc = "on" /\ Len(riskState.calls) < MaxRiskCalls
  /\ riskState' = [recordSuccess(riskState) EXCEPT
                     !.calls = Append(@, [call |-> "success", at |-> riskState.now])]
  /\ RiskFrame

RecordFailure ==
  /\ riskState.pc = "on" /\ Len(riskState.calls) < MaxRiskCalls
  /\ riskState' = [recordFailure(riskState, riskState.now) EXCEPT
                     !.calls = Append(@, [call |-> "failure", at |-> riskState.now])]
  /\ RiskFrame

RiskNext ==
  \/ RiskAdvance
  \/ SetBalance
  \/ CanExecute
  \/ RecordSuccess
  \/ RecordFailure
RiskSpec == RiskInit /\ [][RiskNext]_vars

\* ========================================== the quote engine, on its own
QuoteInit ==
  /\ Parked
  /\ \E pool \in QuotePools : quoting = [QuotingOff EXCEPT !.pc = "idle", !.pool = pool]
  /\ ranking = RankingOff
  /\ riskState = RiskOff
  /\ building = BuildingOff
  /\ streaming = StreamingOff
  /\ curving = CurvingOff

QuoteFrame == BotFrame /\ UNCHANGED << ranking, riskState, building, streaming, curving >>

\* A first quote on the pool, in either direction.
Quote ==
  /\ quoting.pc = "idle"
  /\ \E mint \in {"A", "B"}, amount \in Amounts :
       quoting' = [quoting EXCEPT !.pc = "quoted",
                                  !.first = getQuote(quoting.pool, mint, amount)]
  /\ QuoteFrame

\* The same direction again with an amount that is not smaller.
QuoteMore ==
  /\ quoting.pc = "quoted"
  /\ \E amount \in Amounts :
       /\ cmp(amount, quoting.first.inputAmount) >= 0
       /\ quoting' = [quoting EXCEPT !.pc = "compared",
                        !.second = getQuote(quoting.pool, quoting.first.inputMint, amount)]
  /\ QuoteFrame

\* The output of the first quote, quoted back on the unchanged pool.
QuoteBack ==
  /\ quoting.pc = "quoted"
  /\ quoting' = [quoting EXCEPT !.pc = "returned",
                   !.second = getQuote(quoting.pool, quoting.first.outputMint,
                                       quoting.first.outputAmount)]
  /\ QuoteFrame

QuoteNext ==
  \/ Quote
  \/ QuoteMore
  \/ QuoteBack
QuoteSpec == QuoteInit /\ [][QuoteNext]_vars

\* ============================================= the swap paths, on their own
BuildInit ==
  /\ Parked
  /\ \E call \in SwapCalls : building = [BuildingOff EXCEPT !.pc = "pre", !.call = call]
  /\ ranking = RankingOff
  /\ riskState = RiskOff
  /\ quoting = QuotingOff
  /\ streaming = StreamingOff
  /\ curving = CurvingOff

BuildFrame == BotFrame /\ UNCHANGED << ranking, riskState, quoting, streaming, curving >>

\* The tick arrays of the call's whirlpool that are not on chain.
MissingTickArrays(call) ==
  { i \in 1..3 :
      tickArrays(call.whirlpool.currentTick, call.whirlpool.tickSpacing, call.inputFirst)[i]
        \notin call.whirlpool.onChain }

\* The account reads before the transaction is made: the pool (on every path
\* but swapViaPumpFun) and, on swapViaOrca, getMultipleAccountsInfo on the
\* three tick arrays.
SwapPre ==
  /\ building.pc = "pre"
  /\ \E poolFound \in BOOLEAN :
       /\ "pool" \notin Venue(building.call.fn).checks => poolFound
       /\ IF ~poolFound
             \/ ("tickArrays" \in Venue(building.call.fn).checks
                   /\ MissingTickArrays(building.call) # {})
          THEN building' = [building EXCEPT !.pc = "returned", !.res = "null"]
          ELSE building' = [building EXCEPT !.pc = "build"]
  /\ BuildFrame

\* new Transaction() and every tx.add of the path.
SwapBuild ==
  /\ building.pc = "build"
  /\ building' = [building EXCEPT
                    !.pc = "sim",
                    !.tx = BuildTx(building.call.fn, building.call.inputMint,
                                   building.call.outputMint, building.call.absent,
                                   building.call.inputFirst)]
  /\ BuildFrame

\* simulateTransaction; an error makes the path return null.
SwapSim ==
  /\ building.pc = "sim"
  /\ \E err \in BOOLEAN :
       building' = IF err THEN [building EXCEPT !.pc = "returned", !.simulated = TRUE, !.res = "null"]
                   ELSE [building EXCEPT !.pc = "send", !.simulated = TRUE]
  /\ BuildFrame

\* tx.sign(wallet) and sendAndConfirm.
SwapSend ==
  /\ building.pc = "send"
  /\ \E conf \in {"ok", "err"} :
       building' = [building EXCEPT !.pc = "returned", !.signed = TRUE, !.sent = TRUE,
                                    !.res = sendAndConfirm(conf).ret]
  /\ BuildFrame

BuildNext ==
  \/ SwapPre
  \/ SwapBuild
  \/ SwapSim
  \/ SwapSend
BuildSpec == BuildInit /\ [][BuildNext]_vars

\* ------------------------------------------------------------ the stream
\* The price stream and the periodic refresh on their own: start has called
\* PoolManager.init once and subscribed the stream to the pools it returned.
MaxStreamClock == 2
MaxVersion == 2
MaxGen == 2
MaxFetches == 2

StreamInit ==
  /\ Parked
  /\ ranking = RankingOff
  /\ riskState = RiskOff
  /\ quoting = QuotingOff
  /\ building = BuildingOff
  /\ streaming =
       [on |-> TRUE, now |-> 0, gen |-> 1, held |-> Fetched(1), subscribed |-> Fetched(1),
        heap |-> fetchPoolsFromAPIs(<< >>, [a \in StreamPools |-> 0], 1, 0),
        venue |-> [a \in StreamPools |-> 0],
        inflight |-> {}, issued |-> 0,
        latest |-> [o \in Fetched(1) |-> NoRefetch],
        applied |-> [o \in Fetched(1) |-> 0],
        last |-> [op |-> "init", pool |-> NoPoolObj]]
  /\ curving = CurvingOff

StreamFrame == BotFrame /\ UNCHANGED << ranking, riskState, quoting, building, curving >>

\* Date.now() moves on.
StreamTick ==
  /\ streaming.on /\ streaming.now < MaxStreamClock
  /\ streaming' = [streaming EXCEPT !.now = @ + 1, !.last = [op |-> "tick", pool |-> NoPoolObj]]
  /\ StreamFrame

\* A trade changes a pool's account: the venue's reserves move on and the
\* callback registered by subscribe runs handleAccountUpdate on the object it
\* captured, sending a request when refetchReserves gets to its fetch.
AccountChange ==
  /\ streaming.on
  /\ \E pool \in streaming.subscribed :
       /\ streaming.venue[pool.address] < MaxVersion
       /\ Refetches(pool) => streaming.issued < MaxFetches
       /\ LET venue2 == [streaming.venue EXCEPT ![pool.address] = @ + 1]
              seq == streaming.issued + 1
          IN  streaming' =
                [streaming EXCEPT
                   !.venue = venue2,
                   !.heap = handleAccountUpdate(streaming.heap, pool, streaming.now),
                   !.inflight = IF Refetches(pool)
                                THEN @ \cup {[pool |-> pool, seq |-> seq,
                                              data |-> venue2[pool.address]]}
                                ELSE @,
                   !.issued = IF Refetches(pool) THEN seq ELSE @,
                   !.latest = IF Refetches(pool)
                              THEN [@ EXCEPT ![pool] = Refetch(seq, venue2[pool.address], "pending")]
                              ELSE @,
                   !.last = [op |-> "notify", pool |-> pool]]
  /\ StreamFrame

\* The fetch of one refetchReserves call in flight completes, in any order
\* with the others, and the call runs to its end. latest and applied keep,
\* per object, the most recently issued call and the call whose response the
\* object's reserves come from.
RefetchCompletes ==
  /\ streaming.on
  /\ \E req \in streaming.inflight, how \in FetchOutcomes :
       streaming' =
         [streaming EXCEPT
            !.heap = refetchReservesDone(streaming.heap, req.pool, how, req.data, streaming.now),
            !.inflight = @ \ {req},
            !.latest = IF @[req.pool].seq = req.seq THEN [@ EXCEPT ![req.pool].how = how] ELSE @,
            !.applied = IF how = "ok" THEN [@ EXCEPT ![req.pool] = req.seq] ELSE @,
            !.last = [op |-> IF how = "ok" THEN "refetched" ELSE "refetchFailed",
                      pool |-> req.pool]]
  /\ StreamFrame

\* The setInterval callback: PoolManager.init replaces the manager's list by
\* the objects of a new fetchPoolsFromAPIs call.
PeriodicRefresh ==
  /\ streaming.on /\ streaming.gen < MaxGen
  /\ LET gen2 == streaming.gen + 1
     IN  streaming' =
           [streaming EXCEPT
              !.gen = gen2,
              !.held = Fetched(gen2),
              !.heap = fetchPoolsFromAPIs(streaming.heap, streaming.venue, gen2, streaming.now),
              !.latest = [o \in DOMAIN streaming.latest \cup Fetched(gen2) |->
                            IF o \in DOMAIN streaming.latest THEN streaming.latest[o]
                            ELSE NoRefetch],
              !.applied = [o \in DOMAIN streaming.applied \cup Fetched(gen2) |->
                             IF o \in DOMAIN streaming.applied THEN streaming.applied[o] ELSE 0],
              !.last = [op |-> "refresh", pool |-> NoPoolObj]]
  /\ StreamFrame

StreamNext ==
  \/ StreamTick
  \/ AccountChange
  \/ RefetchCompletes
  \/ PeriodicRefresh
StreamSpec == StreamInit /\ [][StreamNext]_vars

\* ------------------------------------------------------ the bonding curve
\* The quotes of one pump.fun curve, taken on their own: the exported
\* getBuyQuote / getSellQuote and getQuote on the PoolInfo made of the curve.
CurveInit ==
  /\ Parked
  /\ ranking = RankingOff
  /\ riskState = RiskOff
  /\ quoting = QuotingOff
  /\ building = BuildingOff
  /\ streaming = StreamingOff
  /\ \E tokens \in VirtualTokens, sol \in VirtualSol, inputMint \in {SOL_MINT, TokenMint},
        amountIn \in CurveAmounts :
       curving = [CurvingOff EXCEPT !.pc = "in", !.curve = BondingCurveData(tokens, sol),
                                    !.inputMint = inputMint, !.amountIn = amountIn]

CurveFrame == BotFrame /\ UNCHANGED << ranking, riskState, quoting, building, streaming >>

\* getBuyQuote when SOL goes in, getSellQuote when the token goes in.
CurveQuote ==
  /\ curving.pc = "in"
  /\ curving' = [curving EXCEPT
                   !.pc = "helper",
                   !.helper = IF curving.inputMint = SOL_MINT
                              THEN getBuyQuote(curving.curve, curving.amountIn)
                              ELSE getSellQuote(curving.curve, curving.amountIn)]
  /\ CurveFrame

\* PoolManager.getQuote on the curve's PoolInfo.
CurvePoolQuoted ==
  /\ curving.pc = "helper"
  /\ curving' = [curving EXCEPT
                   !.pc = "quoted",
                   !.pool = CurvePoolQuote(curving.curve, curving.inputMint, curving.amountIn)]
  /\ CurveFrame

CurveNext ==
  \/ CurveQuote
  \/ CurvePoolQuoted
CurveSpec == CurveInit /\ [][CurveNext]_vars

\* ================================================================= claims
\* A step in which execute is called (the call's outcome becomes known).
CallStep == outcome = "none" /\ outcome' # "none"
InFlight == Pending \cup {"Leg1Done", "Leg2Failed"}

\* C1 (as claimed): a live run moves only along Idle -> Leg1Pending ->
\* {Leg1Failed | Leg1Done}, Leg1Done -> Leg2Pending -> {Done | Leg2Failed},
\* Leg2Failed -> FallbackPending -> {Done | Failed}, and a run whose Leg 1 was
\* confirmed never ends without a Leg 2 sell having been attempted.
TwoLegTransitions ==
  { << "Idle", "Leg1Pending" >>, << "Leg1Pending", "Leg1Failed" >>,
    << "Leg1Pending", "Leg1Done" >>, << "Leg1Done", "Leg2Pending" >>,
    << "Leg2Pending", "Done" >>, << "Leg2Pending", "Leg2Failed" >>,
    << "Leg2Failed", "FallbackPending" >>, << "FallbackPending", "Done" >>,
    << "FallbackPending", "Failed" >> }
C1_TwoLegMachine ==
  [][ /\ (state' # state /\ state' # "Idle") => << state, state' >> \in TwoLegTransitions
      /\ (state' \in Terminal /\ legs'["leg1"].res = "sig") => legs'["leg2"].attempts = 1
    ]_vars

\* C2 (as claimed): when Leg 1 is reported failed, execute returns false, no
\* sell leg is attempted, and no Leg 1 transaction is confirmed or can still
\* land on chain.
C2_Leg1FailureNoExposure ==
  state = "Leg1Failed" =>
    /\ result = "false"
    /\ legs["leg2"].attempts = 0 /\ legs["fallback"].attempts = 0
    /\ legs["leg1"].tx \notin {"pending", "landed"}

\* C3 (as claimed): when Leg 2 fails (null or thrown) after a confirmed Leg 1,
\* the finished run has attempted exactly one fallback re-sell, against the
\* opportunity's alternate pool.
C3_ExactlyOneFallback ==
  (state \in Terminal /\ legs["leg1"].res = "sig" /\ legs["leg2"].res \in {"null", "throw"}) =>
    /\ legs["fallback"].attempts = 1
    /\ legs["fallback"].pool = bestOpp.buyPool
    /\ legs["fallback"].pool # legs["leg2"].pool

\* C4 (as claimed): a run that reached FallbackPending ends Done, reported as
\* success, when the fallback re-sell is confirmed, and Failed, reported as
\* failure, when it fails.
C4_FallbackResultDistinguished ==
  (state \in Terminal /\ legs["fallback"].attempts = 1) =>
    IF legs["fallback"].res = "sig"
    THEN state = "Done" /\ result = "true" /\ recorded = "success"
    ELSE state = "Failed" /\ result = "false" /\ recorded = "failure"

\* C5: on every swap path a transaction is signed and submitted only after
\* its one simulation returned no error; a simulation error makes the leg
\* return null with nothing signed or submitted and no second simulation.
C5_SimulateBeforeSign ==
  \A l \in LegIds :
    /\ legs[l].sims <= 1 /\ legs[l].attempts <= 1
    /\ legs[l].signed => (legs[l].simRes = "ok" /\ legs[l].sims = 1)
    /\ legs[l].tx # "none" => legs[l].signed
    /\ legs[l].simRes = "err" =>
         (~legs[l].signed /\ legs[l].tx = "none" /\ legs[l].res = "null")
C5_Witness ==
  /\ legs["leg1"].tx = "landed" /\ legs["leg1"].signed
  /\ legs["leg2"].simRes = "err" /\ legs["leg2"].res = "null"

\* C6: in dry-run mode no step ever starts a leg or reads a balance, and a
\* non-suppressed execute call adds one to the execution counter, adds the
\* opportunity's expectedProfit to the profit total and returns true.
C6_DryRun ==
  [][ dryRun =>
        /\ legs' = NoLegs /\ balReads' = << >> /\ state' = "Idle"
        /\ (CallStep /\ outcome' # "suppressed") =>
             /\ outcome' = "dry"
             /\ executionCount' = executionCount + 1
             /\ totalProfit' = totalProfit + bestOpp.expectedProfit
             /\ result' = "true"
    ]_vars
C6_Witness ==
  dryRun /\ outcome = "dry" /\ result = "true" /\ executionCount = 2 /\ totalProfit = 3

\* C7: an execute call that directly follows a non-suppressed call for the
\* same (buyPool, sellPool, kind) less than 30 s later is suppressed: it
\* returns false, starts no leg, and leaves the counters and the dedup
\* record as they were.
C7_BackToBackDuplicate ==
  [][ ( /\ CallStep
        /\ prevCall.outcome \in {"dry", "live"}
        /\ prevCall.key = DedupKey(bestOpp)
        /\ clock - prevCall.at < DedupWindowMs )
      => /\ outcome' = "suppressed" /\ result' = "false"
         /\ legs' = NoLegs /\ state' = "Idle" /\ balReads' = << >>
         /\ UNCHANGED << executionCount, totalProfit, lastExecution, started >>
    ]_vars
C7_Witness ==
  /\ outcome = "suppressed" /\ cycleCount = 2
  /\ lastStart.key = prevCall.key /\ prevCall.at - lastStart.at < DedupWindowMs

\* C8 (as claimed): a call whose key equals the key of any execution that
\* started less than 30 s earlier is suppressed.
C8_AnyEarlierExecution ==
  [][ ( /\ CallStep
        /\ started[DedupKey(bestOpp)] >= 0
        /\ clock - started[DedupKey(bestOpp)] < DedupWindowMs )
      => outcome' = "suppressed"
    ]_vars

\* C8 (amended): a call is suppressed exactly when its key equals the key of
\* the most recent non-suppressed call and that call started less than 30 s
\* earlier; executions of another key in between lift the suppression.
C8_MostRecentExecution ==
  [][ CallStep =>
        ( outcome' = "suppressed" <=>
            ( /\ lastStart # NoCall
              /\ lastStart.key = DedupKey(bestOpp)
              /\ clock - lastStart.at < DedupWindowMs ) )
    ]_vars
C8_Witness ==
  /\ outcome = "suppressed" /\ cycleCount = 3
  /\ lastStart.key = prevCall.key /\ prevCall.at - lastStart.at = 15000
  /\ \E k \in DOMAIN started : k # lastStart.key /\ started[k] >= 0

\* C9: cycles never overlap: a cycle starts only when no cycle and no
\* execution is in flight, and at most one cycle is ever active.
C9_NoOverlap ==
  [][ /\ activeCycles' <= 1
      /\ cycleCount' # cycleCount => (activeCycles = 0 /\ state \notin InFlight)
      /\ state' \in InFlight => (activeCycles' = 1 /\ loopPc' = "cycle")
    ]_vars
C9_Witness ==
  cycleCount = 2 /\ state = "Leg2Pending" /\ legPc = "confirm" /\ activeCycles = 1

\* C10 (as claimed): when the process has ended after a stop signal, the
\* current cycle had completed, the subscriptions were removed and the
\* refresh timer was cleared.
C10_TeardownBeforeExit ==
  ~alive => (activeCycles = 0 /\ subscriptions = {} /\ ~refreshTimer)

\* C11 (as claimed): a stop signal never cancels an execution in flight: when
\* the process has ended, no run is left between Leg1Pending and a terminal
\* state.
C11_SignalNeverCancels ==
  ~alive => state \notin InFlight

\* C12: once the loop is running, a cycle that fails (detection, risk check or
\* execution) ends neither the process nor the loop: the loop goes to its
\* sleep with running as it was, leaves the sleep only for the loop test, and
\* leaves the loop test, while running, only by starting the next cycle; only
\* the stop signal ends the running process.
CycleDone ==
  /\ cyclePc' \in {"returned", "threw"}
  /\ cyclePc \in {"risk", "exec"} \/ cycleCount' # cycleCount
C12_LoopSurvivesFailure ==
  [][ /\ CycleDone => (alive' /\ running' = running /\ loopPc' = "sleep")
      /\ (loopPc = "sleep" /\ loopPc' # "sleep") => loopPc' = "top"
      /\ (loopPc = "top" /\ loopPc' # "top" /\ running) => cycleCount' = cycleCount + 1
      /\ (running /\ alive /\ ~alive') => ~running'
    ]_vars
C12_Witness ==
  /\ alive /\ running /\ cycleCount = 3 /\ cyclePc = "risk" /\ outcome = "none"
  /\ prevCall.outcome = "live" /\ executionCount = 0

\* C13: canExecute reports the first failing check in the order position
\* size, freshness, balance, circuit breaker, and allows exactly when none
\* fails.
AskStep ==
  /\ riskState.pc = "on"
  /\ riskState'.opp # riskState.opp \/ riskState'.check # riskState.check
C13_FirstFailingCheck ==
  [][ AskStep =>
        LET o == riskState'.opp
            r == riskState'.check
            t == riskState.now
            large == o.inputAmount > MaxTradeSize
            stale == \/ t - o.buyPool.lastUpdate > FreshnessWindow
                     \/ t - o.sellPool.lastUpdate > FreshnessWindow
            poor == riskState.balance < o.inputAmount + FeeMargin
            open == /\ riskState.consecutiveFailures >= FailureThreshold
                    /\ t - riskState.cooldownStart < Cooldown
        IN  /\ large => r = RiskResult(FALSE, "PositionTooLarge")
            /\ (~large /\ stale) => r = RiskResult(FALSE, "StaleData")
            /\ (~large /\ ~stale /\ poor) => r = RiskResult(FALSE, "InsufficientBalance")
            /\ (~large /\ ~stale /\ ~poor /\ open) => r = RiskResult(FALSE, "CircuitOpen")
            /\ (~large /\ ~stale /\ ~poor /\ ~open) => r = RiskResult(TRUE, "none")
    ]_vars
C13_Witness ==
  /\ riskState.check.reason = "PositionTooLarge"
  /\ riskState.opp.inputAmount > MaxTradeSize
  /\ riskState.now - riskState.opp.sellPool.lastUpdate > FreshnessWindow
  /\ riskState.balance < riskState.opp.inputAmount + FeeMargin
  /\ riskState.consecutiveFailures >= FailureThreshold
  /\ riskState.now - riskState.cooldownStart < Cooldown

\* C14: for an opportunity that passes the first three checks, canExecute
\* answers CircuitOpen exactly when the last FailureThreshold or more record
\* calls were all failures and less than the cooldown has passed since the
\* last of them; otherwise it allows. A recordSuccess in between starts the
\* count afresh.
RECURSIVE Streak(_)
Streak(calls) ==
  IF calls = << >> \/ calls[Len(calls)].call # "failure" THEN 0
  ELSE 1 + Streak(SubSeq(calls, 1, Len(calls) - 1))
C14_CircuitBreaker ==
  [][ ( /\ AskStep
        /\ riskState'.opp.inputAmount <= MaxTradeSize
        /\ riskState.now - riskState'.opp.buyPool.lastUpdate <= FreshnessWindow
        /\ riskState.now - riskState'.opp.sellPool.lastUpdate <= FreshnessWindow
        /\ riskState.balance >= riskState'.opp.inputAmount + FeeMargin )
      => LET calls == riskState.calls
             open == /\ Streak(calls) >= FailureThreshold
                     /\ riskState.now - calls[Len(calls)].at < Cooldown
         IN  /\ open => riskState'.check = RiskResult(FALSE, "CircuitOpen")
             /\ ~open => riskState'.check = RiskResult(TRUE, "none")
    ]_vars
C14_Witness ==
  /\ riskState.check.allowed
  /\ riskState.opp # NoRiskOpp
  /\ Len(riskState.calls) = 3 /\ riskState.calls[1].call = "success"
  /\ Streak(riskState.calls) = FailureThreshold
  /\ riskState.now - riskState.calls[3].at = Cooldown

\* C15: the opportunity chosen in a cycle is the first one, in the order mint,
\* then spatial, temporal, triangular, then list position, among those with
\* the highest profitBps of all candidates of all mints with two pools; with
\* no candidate nothing is chosen.
RECURSIVE Merged(_, _)
Merged(snap, m) ==
  IF m > Len(snap) THEN << >>
  ELSE (IF snap[m].enough THEN MintOpps(m, snap[m]) ELSE << >>) \o Merged(snap, m + 1)
C15_HighestFirstSeen ==
  ranking.pc = "done" =>
    LET all == Merged(ranking.snapshot, 1)
    IN  IF all = << >> THEN ranking.bestOpp = NoOpp
        ELSE \E i \in 1..Len(all) :
               /\ ranking.bestOpp = all[i]
               /\ \A j \in 1..Len(all) : all[j].profitBps <= all[i].profitBps
               /\ \A j \in 1..(i - 1) : all[j].profitBps < all[i].profitBps
C15_Witness ==
  /\ ranking.pc = "done" /\ Len(ranking.snapshot) = 2
  /\ ranking.snapshot[1].spatial = << 50, 50 >> /\ ranking.snapshot[1].temporal = << 70 >>
  /\ ranking.snapshot[1].triangular = << 70 >> /\ ranking.snapshot[2].spatial = << 70, 70 >>
  /\ ranking.bestOpp.type = "temporal" /\ ranking.bestOpp.buyPool.address = 11

\* C19: a leg's simulation, confirmation or RPC failure never leaves execute
\* as an exception: every finished execute call gave runCycle true or false,
\* runCycle returned, and it made the one matching record call; before the
\* call finishes no record call is made.
C19_ExecuteNeverRaises ==
  /\ result \in {"none", "true", "false"}
  /\ (outcome # "none" /\ cyclePc # "exec") =>
        /\ result \in {"true", "false"}
        /\ recorded = (IF result = "true" THEN "success" ELSE "failure")
        /\ cyclePc = "returned"
  /\ (outcome = "none" \/ cyclePc = "exec") => (result = "none" /\ recorded = "none")
C19_Witness ==
  /\ legs["leg1"].res = "sig" /\ legs["leg2"].tx = "pending" /\ legs["leg2"].res = "throw"
  /\ result = "false" /\ recorded = "failure" /\ cyclePc = "returned"

\* C20: execute is called only from the risk check of the same cycle, only
\* when canExecute allowed, and for the cycle's best opportunity; a blocked
\* (or throwing) risk check leaves the cycle without an execute call and
\* without a record call; after a cycle's execute call there is no second
\* call in that cycle.
C20_GateBeforeExecute ==
  [][ /\ CallStep =>
            /\ cyclePc = "risk" /\ riskCheck' = "allowed" /\ bestOpp' = bestOpp
            /\ prevCall'.key = DedupKey(bestOpp)
            /\ outcome' = "live" => legs'["leg1"].pool = bestOpp.buyPool
      /\ riskCheck' \in {"blocked", "threw"} =>
            /\ outcome' = "none" /\ result' = "none" /\ recorded' = "none"
            /\ legs' = NoLegs /\ lastExecution' = lastExecution
            /\ UNCHANGED statVars
      /\ (outcome # "none" /\ cycleCount' = cycleCount) =>
            (outcome' = outcome /\ prevCall' = prevCall /\ lastExecution' = lastExecution)
    ]_vars
C20_Witness ==
  /\ riskCheck = "blocked" /\ cycleCount = 2 /\ cyclePc = "returned"
  /\ prevCall.outcome = "live" /\ lastExecution # NoExec

\* ---------------------------------------------------------------- C16
\* The constant-product formula in whole numbers: the floor of
\* in*(10000-fee)*reserveOut / (reserveIn*10000 + in*(10000-fee)).
ExactOut(amountIn, reserveIn, reserveOut, feeBps) ==
  LET scaledIn == BigMul(WholeDigits(amountIn), DigitsOf(10000 - feeBps))
  IN  Dec(BigDivMod(BigMul(scaledIn, WholeDigits(reserveOut)),
                    BigAdd(BigMul(WholeDigits(reserveIn), DigitsOf(10000)), scaledIn)).q, 0)
OnReserves(pool) == ~UsesApiPrice(pool) /\ ~UsesSqrtPrice(pool)
ReserveIn(pool, mint) == IF pool.tokenA = mint THEN pool.reserveA ELSE pool.reserveB
ReserveOut(pool, mint) == IF pool.tokenA = mint THEN pool.reserveB ELSE pool.reserveA

\* C16: on a pool quoted from its reserves, both positive, with a fee below
\* 10000 bps, every input amount >= 0 gives 0 <= output < reserveOut, a larger
\* input never gives a smaller output, and the output is exactly
\* floor(effIn*reserveOut/(reserveIn+effIn)) with effIn = in*(10000-fee)/10000.
C16_ConstantProductQuote ==
  LET pool == quoting.pool
      q == quoting.first
  IN  ( /\ quoting.pc \in {"quoted", "compared"}
        /\ OnReserves(pool)
        /\ gt(pool.reserveA, Zero) /\ gt(pool.reserveB, Zero)
        /\ pool.fee >= 0 /\ pool.fee < 10000 )
      => /\ IsNum(q.outputAmount) /\ q.outputAmount.s = 1
         /\ cmp(q.outputAmount, ReserveOut(pool, q.inputMint)) < 0
         /\ q.outputAmount = ExactOut(q.inputAmount, ReserveIn(pool, q.inputMint),
                                      ReserveOut(pool, q.inputMint), pool.fee)
         /\ quoting.pc = "compared"
              => /\ IsNum(quoting.second.outputAmount)
                 /\ cmp(q.outputAmount, quoting.second.outputAmount) <= 0

\* ---------------------------------------------------------------- C17
\* A pool whose reserves are positive and whose price, where it has one, is too.
Priced(pool) ==
  /\ gt(pool.reserveA, Zero) /\ gt(pool.reserveB, Zero)
  /\ pool.orcaApiPrice # undefined => gt(pool.orcaApiPrice, Zero)
  /\ pool.sqrtPriceX64 # undefined => gt(pool.sqrtPriceX64, Zero)

\* C17: quoting A->B and then the output B->A on the same unchanged pool
\* returns at most the input when the fee is 0 and strictly less when the fee
\* is positive, on the reserve, sqrt-price and API-price paths alike; stated
\* here for the amounts and pools that allow it at all (a positive amount, a
\* pool with positive reserves and price).
C17_NoValueCreation ==
  LET pool == quoting.pool
      back == quoting.second.outputAmount
  IN  ( /\ quoting.pc = "returned"
        /\ quoting.first.inputMint = pool.tokenA
        /\ Priced(pool)
        /\ gt(quoting.first.inputAmount, Zero) )
      => /\ IsNum(back)
         /\ IF pool.fee = 0 THEN cmp(back, quoting.first.inputAmount) <= 0
                            ELSE cmp(back, quoting.first.inputAmount) < 0

\* ---------------------------------------------------------------- C18
InvalidPool == [NoQuote EXCEPT !.inputMint = "InvalidPool"]
QuoteUnavailable == [NoQuote EXCEPT !.inputMint = "QuoteUnavailable"]
ZeroReserves(pool) == isZero(pool.reserveA) \/ isZero(pool.reserveB)
\* A concentrated-liquidity pool with neither an API price nor a square-root
\* price above zero.
NoPriceSource(pool) ==
  /\ pool.poolType \in {"whirlpool", "clmm"}
  /\ ~UsesApiPrice(pool)
  /\ pool.sqrtPriceX64 = undefined \/ isZero(pool.sqrtPriceX64)

\* C18: a pool with a zero reserve is answered with InvalidPool and a pool
\* with no usable price source with QuoteUnavailable; neither gets a quote
\* with a number, NaN or Infinity in it.
C18_TypedErrors ==
  quoting.pc = "quoted"
  => /\ ZeroReserves(quoting.pool) => quoting.first = InvalidPool
     /\ (~ZeroReserves(quoting.pool) /\ NoPriceSource(quoting.pool))
          => quoting.first = QuoteUnavailable

\* ---------------------------------------------------------------- C21
\* Leg 2 is called in this step; its transaction is on its way or settled.
Leg2Called == legs["leg2"].attempts = 0 /\ legs'["leg2"].attempts = 1
Submitted(leg) == leg.tx # "none"

\* C21: after a confirmed Leg 1 the run takes the settle delay, then reads
\* the token balance, then calls Leg 2 on the opportunity's sell pool with
\* exactly the amount just read; a Leg 2 transaction is never submitted
\* unless Leg 1 was confirmed, and never against another pool.
C21_SettleReadThenSell ==
  [][ /\ (legPc' = "settle" /\ legPc # "settle")
           => /\ state = "Leg1Pending" /\ state' = "Leg1Done"
              /\ legs'["leg1"].res = "sig" /\ legs'["leg1"].tx = "landed"
      /\ (legPc' = "read" /\ legPc # "read")
           => /\ state = "Leg1Done" /\ legPc = "settle"
              /\ balReads' = << >>
              /\ legs'["leg2"].attempts = 0
      /\ Leg2Called
           => /\ state = "Leg1Done" /\ legPc = "read"
              /\ balReads = << >> /\ Len(balReads') = 1
              /\ legs'["leg2"].amount = balReads'[1]
              /\ legs'["leg2"].pool = bestOpp.sellPool
              /\ legs'["leg2"].dir = "sell"
              /\ ~Submitted(legs'["leg2"])
      /\ Submitted(legs'["leg2"])
           => /\ legs'["leg1"].res = "sig" /\ legs'["leg1"].tx = "landed"
              /\ legs'["leg2"].pool = bestOpp'.sellPool
              /\ legs'["leg2"].amount = balReads'[1]
    ]_vars
C21_Witness ==
  /\ state = "Leg2Pending" /\ legPc = "confirm"
  /\ Submitted(legs["leg2"])
  /\ balReads = << 2 >> /\ legs["leg2"].amount = 2
  /\ legs["leg2"].pool = bestOpp.sellPool /\ bestOpp.sellPool # bestOpp.buyPool

\* ---------------------------------------------------------------- C22
\* Where the swap instruction stands in a built transaction.
SwapAt(tx) == CHOOSE i \in 1..Len(tx) : tx[i].op = "swap"
BudgetFirst(tx) ==
  /\ Len(tx) >= 3
  /\ tx[1].op = "setComputeUnitLimit" /\ tx[2].op = "setComputeUnitPrice"
  /\ \A i \in 3..Len(tx) : tx[i].op \notin {"setComputeUnitLimit", "setComputeUnitPrice"}
\* One create instruction, before the swap, for exactly the accounts among
\* `accounts` that do not exist.
CreatesAbsent(tx, accounts, absent) ==
  \A a \in {"input", "output"} :
    IF a \in accounts /\ a \in absent
    THEN \E i \in 3..(SwapAt(tx) - 1) :
           /\ tx[i] = Instr("createAssociatedTokenAccount", a)
           /\ \A j \in 1..Len(tx) : tx[j] = tx[i] => j = i
    ELSE \A i \in 1..Len(tx) : tx[i] # Instr("createAssociatedTokenAccount", a)
Wrapped(tx) ==
  \E i \in 3..(SwapAt(tx) - 2) :
    tx[i] = Instr("transfer", "input") /\ tx[i + 1] = Instr("syncNative", "input")
Unwrapped(tx) == \E i \in (SwapAt(tx) + 1)..Len(tx) : tx[i] = Instr("closeAccount", "output")
NativeUntouched(tx) ==
  \A i \in 1..Len(tx) : tx[i].op \notin {"transfer", "syncNative", "closeAccount"}
CommonShape(call, tx) ==
  /\ BudgetFirst(tx)
  /\ CreatesAbsent(tx, {"input", "output"}, call.absent)
  /\ call.inputMint = SOL_MINT => Wrapped(tx)
  /\ call.outputMint = SOL_MINT => Unwrapped(tx)

\* C22 (as claimed): the transaction built on any of the five swap paths
\* starts with the compute-budget instructions, creates each of the input and
\* output token accounts that does not exist, wraps before the swap when the
\* input is native and closes the wrapped account after the swap when the
\* output is native.
C22_CommonPreamble ==
  building.tx # << >> => CommonShape(building.call, building.tx)

\* C22 (amended): that holds on the four paths that trade through token
\* accounts; the pump.fun path, which trades native lamports, starts with the
\* compute-budget instructions, creates the wallet's token account of the
\* traded token if it does not exist, and neither wraps nor unwraps.
C22_PreambleButPumpFun ==
  building.tx # << >> =>
    IF building.call.fn = "swapViaPumpFun"
    THEN /\ BudgetFirst(building.tx)
         /\ CreatesAbsent(building.tx,
                          {IF building.call.inputMint = SOL_MINT THEN "output" ELSE "input"},
                          building.call.absent)
         /\ NativeUntouched(building.tx)
    ELSE CommonShape(building.call, building.tx)
C22_Witness ==
  /\ building.pc = "returned" /\ building.sent
  /\ building.call.fn = "swapViaPumpSwap"
  /\ building.call.outputMint = SOL_MINT
  /\ building.call.absent = {"input", "output"}
  /\ Len(building.tx) = 6

\* ---------------------------------------------------------------- C24
\* The start indices the claim names, written out from the current tick: the
\* array holding the tick and the two after it in the direction of the swap,
\* each spanning the pool's tick spacing times 88 ticks.
Span(call) == call.whirlpool.tickSpacing * 88
Holds(start, tick, span) == start <= tick /\ tick < start + span
NamedArrays(call) ==
  LET first == CHOOSE start \in { k * Span(call) : k \in -200..200 } :
                 Holds(start, call.whirlpool.currentTick, Span(call))
  IN  IF call.inputFirst THEN {first, first - Span(call), first - 2 * Span(call)}
      ELSE {first, first + Span(call), first + 2 * Span(call)}

\* C24: when one of the three tick arrays of a whirlpool swap is not on chain,
\* the swap path returns null without having built, simulated, signed or
\* submitted a transaction.
C24_MissingTickArrayAborts ==
  (/\ building.call.fn = "swapViaOrca"
   /\ building.pc # "pre"
   /\ ~(NamedArrays(building.call) \subseteq building.call.whirlpool.onChain))
    => /\ building.pc = "returned" /\ building.res = "null"
       /\ building.tx = << >>
       /\ ~building.simulated /\ ~building.signed /\ ~building.sent
\* A swap from the second mint to the first, at a negative tick, whose first two
\* arrays exist and whose third does not.
C24_Witness ==
  /\ building.call.fn = "swapViaOrca" /\ building.pc = "returned"
  /\ ~building.call.inputFirst
  /\ building.call.whirlpool.currentTick = -89 /\ building.call.whirlpool.tickSpacing = 1
  /\ building.call.whirlpool.onChain = {-176, -88}
  /\ MissingTickArrays(building.call) = {3}
  /\ building.tx = << >> /\ building.res = "null"

\* ---------------------------------------------------------------- C28
\* C28: a cycle whose execute call was suppressed as a duplicate reports no
\* failure to the risk manager.
C28_SuppressedNotAFailure ==
  outcome = "suppressed" => recorded # "failure"

\* ---------------------------------------------------------------- C29
\* An execute call returns: the cycle's result goes from none to true or false.
Returns(res) == result = "none" /\ result' = res

\* C29: the execution counter and the profit total change only in a step in
\* which execute returns true, and then by one and by the opportunity's
\* expectedProfit; every step in which execute returns true makes that change
\* and every step in which it returns false leaves both alone. From zero at
\* construction the counter is therefore the number of true results.
C29_CountersFollowTrue ==
  [][ /\ (executionCount' # executionCount \/ totalProfit' # totalProfit) => Returns("true")
      /\ Returns("true") =>
            /\ executionCount' = executionCount + 1
            /\ totalProfit' = totalProfit + bestOpp.expectedProfit
      /\ Returns("false") => UNCHANGED << executionCount, totalProfit >>
      /\ executionCount' >= executionCount
    ]_vars
\* Two completed live runs and one failed one in three cycles.
C29_Witness ==
  /\ ~dryRun /\ cycleCount = 3 /\ executionCount = 2 /\ totalProfit > 0
  /\ outcome = "live" /\ result = "false" /\ state = "Failed"
  /\ legs["fallback"].res = "sig"

\* ---------------------------------------------------------------- C30
\* C30: the dedup record changes only in the step that starts a call that is
\* not suppressed, where it takes the call's key and time, before the call
\* has a result in live mode; a suppressed call leaves it alone, and so does
\* the end of a run, whatever its result. A call is suppressed only within
\* 30 s of the last non-suppressed call, which had the same key; a call for
\* that key 30 s or more after it is not suppressed.
C30_StampAtStart ==
  [][ /\ (CallStep /\ outcome' # "suppressed") =>
            /\ lastExecution' = [key |-> DedupKey(bestOpp), timestamp |-> clock]
            /\ outcome' = "live" => result' = "none"
      /\ (~CallStep \/ outcome' = "suppressed") => lastExecution' = lastExecution
      /\ (CallStep /\ outcome' = "suppressed") =>
            /\ lastStart.key = DedupKey(bestOpp)
            /\ clock - lastStart.at < DedupWindowMs
            /\ lastExecution = [key |-> lastStart.key, timestamp |-> lastStart.at]
      /\ (CallStep /\ lastStart.key = DedupKey(bestOpp)
            /\ clock - lastStart.at >= DedupWindowMs) => outcome' # "suppressed"
    ]_vars
\* A live run that started at time 0 and failed, and 15 s later a call for
\* the same key, suppressed, with the record still as the failed run left it.
C30_Witness ==
  /\ ~dryRun /\ cycleCount = 2 /\ outcome = "suppressed" /\ executionCount = 0
  /\ lastStart.outcome = "live" /\ lastStart.at = 0 /\ clock = 15000
  /\ prevCall.key = lastStart.key
  /\ lastExecution = [key |-> lastStart.key, timestamp |-> 0]

\* ---------------------------------------------------------------- C25
\* C25: every PoolInfo object a step of the stream changes is, after the
\* step, an object of the pool manager's list.
C25_StreamMutatesHeldRecords ==
  [][ \A o \in DOMAIN streaming.heap :
        streaming'.heap[o] # streaming.heap[o] => o \in streaming'.held
    ]_vars

\* ---------------------------------------------------------------- C26
\* The refetchReserves calls for an object have all completed and the most
\* recently issued one got its data.
Settled(o) ==
  /\ \A req \in streaming.inflight : req.pool # o
  /\ streaming.latest[o].how = "ok"
\* C26: the reserves of an object never go from the response of a later
\* issued refetch to that of an earlier issued one, and once all refetches
\* for the object have completed its reserves are those of the most recently
\* issued one.
C26_NewestRefetchWins ==
  [][ \A o \in DOMAIN streaming.heap :
        /\ streaming'.applied[o] >= streaming.applied[o]
        /\ Settled(o)' =>
              /\ streaming'.applied[o] = streaming'.latest[o].seq
              /\ streaming'.heap[o].reserves = streaming'.latest[o].data
    ]_vars

\* ---------------------------------------------------------------- C27
\* C27: lastUpdate of an object changes only in the step in which a refetch
\* for that object completes with data; a notification, and a refetch that
\* fails or gets no data, leave it as it was.
C27_LastUpdateOnlyOnRefresh ==
  [][ \A o \in DOMAIN streaming.heap :
        streaming'.heap[o].lastUpdate # streaming.heap[o].lastUpdate
          => streaming'.last = [op |-> "refetched", pool |-> o]
    ]_vars

\* ---------------------------------------------------------------- C23
\* The reserves on the input and on the output side of a curve quote.
VirtualIn(c) ==
  IF c.inputMint = SOL_MINT THEN c.curve.virtualSolReserves ELSE c.curve.virtualTokenReserves
VirtualOut(c) ==
  IF c.inputMint = SOL_MINT THEN c.curve.virtualTokenReserves ELSE c.curve.virtualSolReserves
\* out = virtualOut - (virtualIn * virtualOut) / (virtualIn + effIn), in whole
\* units, with effIn the input less the 1% fee.
FeeOnInput(virtualIn, virtualOut, effIn) ==
  virtualOut - (virtualIn * virtualOut) \div (virtualIn + effIn)
\* The same with the fee-reduced input kept exact (99/100 of the input) and
\* the quotient brought down to whole units at the end.
FeeOnInputExact(virtualIn, virtualOut, amountIn) ==
  (99 * amountIn * virtualOut) \div (100 * virtualIn + 99 * amountIn)

\* C23: in both directions the bonding-curve quote is the curve formula on
\* the fee-reduced input, with nothing taken from the output: the exported
\* buy and sell quotes in bigint arithmetic, getQuote in Decimal arithmetic.
C23_FeeOnInputBothWays ==
  /\ curving.pc \in {"helper", "quoted"} =>
       curving.helper = FeeOnInput(VirtualIn(curving), VirtualOut(curving),
                                   (curving.amountIn * 99) \div 100)
  /\ curving.pc = "quoted" =>
       curving.pool = Decimal(FeeOnInputExact(VirtualIn(curving), VirtualOut(curving),
                                              curving.amountIn))
====
